---- MODULE Spec2Model ----
(***************************************************************************)
(* A model of the streaming multipart parser of ntex-multipart:            *)
(* PayloadBuffer (payload.rs), Safety (safety.rs), Field / InnerField      *)
(* (field.rs) and Multipart / InnerMultipart (multipart.rs).               *)
(*                                                                         *)
(* Bytes are short strings.  "CR", "LF" and "-" are the bytes the parser   *)
(* looks at; a header line is written  <name byte> <value bytes> CR LF,    *)
(* with the name bytes "L" (Content-Length), "T" (Content-Type),           *)
(* "D" (Content-Disposition) and "H" (any other header).                   *)
(***************************************************************************)
EXTENDS Integers, Sequences, FiniteSets, TLC

\* ------------------------------------------------------------------ bytes

CR == "CR"
LF == "LF"
DASH == "-"
CRLF == <<CR, LF>>
DASHDASH == <<DASH, DASH>>

\* The bounds of the model.
MaxParts == 2

\* multipart.rs:19
MAX_HEADERS == 32

Min(a, b) == IF a <= b THEN a ELSE b

\* Rust's  s[a..b]  (0-based, end exclusive); the callers check the range.
Slice(s, a, b) == SubSeq(s, a + 1, b)

\* Rust's  s[a..]
SliceFrom(s, a) == SubSeq(s, a + 1, Len(s))

\* twoway::find_bytes: the 0-based index of the first occurrence, or -1.
find_bytes(hay, needle) ==
    LET n == Len(needle)
        idx == {i \in 0..(Len(hay) - n) : Slice(hay, i, i + n) = needle}
    IN  IF idx = {} THEN -1
        ELSE CHOOSE i \in idx : \A j \in idx : i <= j

\* A result: a kind and the bytes (or the error name) it carries.
R(k, v) == [k |-> k, v |-> v]

Err(e) == R("err", <<e>>)

\* ----------------------------------------------------------- PayloadBuffer
\* A payload is [buf |-> bytes, eof |-> BOOLEAN]; the upstream is a channel:
\* the chunks that are ready, and whether the sender is gone.

\* PayloadBuffer::poll_stream: append every ready chunk; stop at an error,
\* at the end of the stream (eof) or at the first Pending.  An item
\* <<"!error", e>> of the channel is the error e of the upstream; the caller
\* wraps it as MultipartError::Payload(e).

\* poll_stream that goes on to the next item after an error.
RECURSIVE poll_stream_ignore(_, _, _)
poll_stream_ignore(pl, chan, closed) ==
    IF chan = <<>>
    THEN [pl |-> [pl EXCEPT !.eof = pl.eof \/ closed], chan |-> chan,
          r |-> R("ok", <<>>)]
    ELSE IF Head(chan)[1] = "!error"
    THEN poll_stream_ignore(pl, Tail(chan), closed)
    ELSE poll_stream_ignore([pl EXCEPT !.buf = pl.buf \o Head(chan)],
                            Tail(chan), closed)

\* poll_stream that takes one item of the upstream and returns.
poll_stream_one(pl, chan, closed) ==
    IF chan = <<>>
    THEN [pl |-> [pl EXCEPT !.eof = pl.eof \/ closed], chan |-> chan,
          r |-> R("ok", <<>>)]
    ELSE IF Head(chan)[1] = "!error"
    THEN [pl |-> pl, chan |-> Tail(chan),
          r |-> R("err", <<"Payload", Head(chan)[2]>>)]
    ELSE [pl |-> [pl EXCEPT !.buf = pl.buf \o Head(chan)], chan |-> Tail(chan),
          r |-> R("ok", <<>>)]

RECURSIVE poll_stream(_, _, _)
poll_stream(pl, chan, closed) ==
    IF chan = <<>>
    THEN [pl |-> [pl EXCEPT !.eof = pl.eof \/ closed], chan |-> chan,
          r |-> R("ok", <<>>)]
    ELSE IF Head(chan)[1] = "!error"
    THEN [pl |-> pl, chan |-> Tail(chan),
          r |-> R("err", <<"Payload", Head(chan)[2]>>)]
    ELSE poll_stream([pl EXCEPT !.buf = pl.buf \o Head(chan)], Tail(chan), closed)

\* read_max that takes an empty buffer for the end of the upstream.
read_max_no_pending(pl, size) ==
    IF pl.buf # <<>>
    THEN [pl |-> [pl EXCEPT !.buf = SliceFrom(pl.buf, Min(Len(pl.buf), size))],
          r |-> R("some", Slice(pl.buf, 0, Min(Len(pl.buf), size)))]
    ELSE [pl |-> pl, r |-> Err("Incomplete")]

\* read_max that returns the whole buffer, whatever the size asked for.
read_max_all(pl, size) ==
    IF pl.buf # <<>>
    THEN [pl |-> [pl EXCEPT !.buf = <<>>], r |-> R("some", pl.buf)]
    ELSE IF pl.eof
    THEN [pl |-> pl, r |-> Err("Incomplete")]
    ELSE [pl |-> pl, r |-> R("none", <<>>)]

\* PayloadBuffer::read_max
read_max(pl, size) ==
    IF pl.buf # <<>>
    THEN [pl |-> [pl EXCEPT !.buf = SliceFrom(pl.buf, Min(Len(pl.buf), size))],
          r |-> R("some", Slice(pl.buf, 0, Min(Len(pl.buf), size)))]
    ELSE IF pl.eof
    THEN [pl |-> pl, r |-> Err("Incomplete")]
    ELSE [pl |-> pl, r |-> R("none", <<>>)]

\* read_until that stops before the delimiter.
split_before_found(pl, line, idx) ==
    IF idx >= 0
    THEN [pl |-> [pl EXCEPT !.buf = SliceFrom(pl.buf, idx)],
          r |-> R("some", Slice(pl.buf, 0, idx))]
    ELSE IF pl.eof
    THEN [pl |-> pl, r |-> Err("Incomplete")]
    ELSE [pl |-> pl, r |-> R("none", <<>>)]

\* read_until that leaves the delimiter it returns in the buffer.
split_keep_found(pl, line, idx) ==
    IF idx >= 0
    THEN [pl |-> [pl EXCEPT !.buf = SliceFrom(pl.buf, idx)],
          r |-> R("some", Slice(pl.buf, 0, idx + Len(line)))]
    ELSE IF pl.eof
    THEN [pl |-> pl, r |-> Err("Incomplete")]
    ELSE [pl |-> pl, r |-> R("none", <<>>)]

\* PayloadBuffer::read_until, idx being twoway::find_bytes(&self.buf, line)
split_at_found(pl, line, idx) ==
    IF idx >= 0
    THEN [pl |-> [pl EXCEPT !.buf = SliceFrom(pl.buf, idx + Len(line))],
          r |-> R("some", Slice(pl.buf, 0, idx + Len(line)))]
    ELSE IF pl.eof
    THEN [pl |-> pl, r |-> Err("Incomplete")]
    ELSE [pl |-> pl, r |-> R("none", <<>>)]

\* PayloadBuffer::read_until
read_until(pl, line) == split_at_found(pl, line, find_bytes(pl.buf, line))

\* readline that reads through CR LF.
readline_crlf(pl) == read_until(pl, CRLF)

\* PayloadBuffer::readline
readline(pl) == read_until(pl, <<LF>>)

\* readline_or_eof that is readline: no line without its newline.
line_or_eof_strict(pl, line) == line

\* PayloadBuffer::readline_or_eof, line being self.readline()
line_or_eof(pl, line) ==
    IF line.r.k = "err" /\ pl.eof
    THEN [pl |-> [pl EXCEPT !.buf = <<>>], r |-> R("some", pl.buf)]
    ELSE line

\* PayloadBuffer::readline_or_eof
readline_or_eof(pl) == line_or_eof(pl, readline(pl))

\* PayloadBuffer::unprocessed
unprocessed(pl, data) == [pl EXCEPT !.buf = data \o pl.buf]

\* -------------------------------------------------------------- InnerField
\* An inner field is [payload |-> it still holds its PayloadRef,
\* eof |-> the latch, length |-> the declared length, -1 when there is none].

NoLength == -1

\* read_len where a read that brings less than the declared length ends the
\* part: the bytes still missing are forgotten.
read_len_chunk_short(rm, size) ==
    CASE rm.r.k = "err" -> [pl |-> rm.pl, size |-> size, r |-> rm.r]
      [] rm.r.k = "some" ->
            [pl |-> IF SliceFrom(rm.r.v, Min(Len(rm.r.v), size)) # <<>>
                    THEN unprocessed(rm.pl,
                                     SliceFrom(rm.r.v, Min(Len(rm.r.v), size)))
                    ELSE rm.pl,
             size |-> 0,
             r |-> R("ok", Slice(rm.r.v, 0, Min(Len(rm.r.v), size)))]
      [] OTHER ->
            [pl |-> rm.pl, size |-> size,
             r |-> IF rm.pl.eof /\ size # 0 THEN Err("Incomplete")
                   ELSE R("pending", <<>>)]

\* read_len where the declared length is not counted down.
read_len_chunk_keep(rm, size) ==
    CASE rm.r.k = "err" -> [pl |-> rm.pl, size |-> size, r |-> rm.r]
      [] rm.r.k = "some" ->
            [pl |-> IF SliceFrom(rm.r.v, Min(Len(rm.r.v), size)) # <<>>
                    THEN unprocessed(rm.pl,
                                     SliceFrom(rm.r.v, Min(Len(rm.r.v), size)))
                    ELSE rm.pl,
             size |-> size,
             r |-> R("ok", Slice(rm.r.v, 0, Min(Len(rm.r.v), size)))]
      [] OTHER ->
            [pl |-> rm.pl, size |-> size,
             r |-> IF rm.pl.eof /\ size # 0 THEN Err("Incomplete")
                   ELSE R("pending", <<>>)]

\* InnerField::read_len after  payload.read_max(*size)?  returned rm
read_len_chunk(rm, size) ==
    CASE rm.r.k = "err" -> [pl |-> rm.pl, size |-> size, r |-> rm.r]
      [] rm.r.k = "some" ->
            [pl |-> IF SliceFrom(rm.r.v, Min(Len(rm.r.v), size)) # <<>>
                    THEN unprocessed(rm.pl,
                                     SliceFrom(rm.r.v, Min(Len(rm.r.v), size)))
                    ELSE rm.pl,
             size |-> size - Min(Len(rm.r.v), size),
             r |-> R("ok", Slice(rm.r.v, 0, Min(Len(rm.r.v), size)))]
      [] OTHER ->
            [pl |-> rm.pl, size |-> size,
             r |-> IF rm.pl.eof /\ size # 0 THEN Err("Incomplete")
                   ELSE R("pending", <<>>)]

\* InnerField::read_len
read_len(pl, size) ==
    IF size = 0
    THEN [pl |-> pl, size |-> size, r |-> R("none", <<>>)]
    ELSE read_len_chunk(read_max(pl, size), size)

\* read_stream without the check of the head of the buffer.
boundary_prefix_none(buf) == 0

\* The head of the buffer in InnerField::read_stream ("check boundary"):
\* the length of the marker prefix found there, "\r\n--" (4) or "\r--" (3),
\* or 0 when there is none.
boundary_prefix(buf) ==
    IF Len(buf) > 4 /\ buf[1] = CR
    THEN IF Slice(buf, 0, 2) = CRLF /\ Slice(buf, 2, 4) = DASHDASH THEN 4
         ELSE IF Slice(buf, 1, 3) = DASHDASH THEN 3
         ELSE 0
    ELSE 0

\* The place of the CR counted from pos, and not from the start of the
\* buffer.
scan_cur_relative(pl, pos) == find_bytes(SliceFrom(pl.buf, pos), <<CR>>)

\* The scan loop of InnerField::read_stream:  cur = pos + idx, the place in
\* the buffer of the first CR at or after pos.
scan_cur(pl, pos) == pos + find_bytes(SliceFrom(pl.buf, pos), <<CR>>)

\* One round of the scan loop of InnerField::read_stream: cur is the place
\* of the next CR at or after pos, found is whether there is one.
RECURSIVE read_stream_scan(_, _)
read_stream_at(pl, found, cur) ==
    IF ~found
    THEN [pl |-> [pl EXCEPT !.buf = <<>>], r |-> R("ok", pl.buf)]
    ELSE IF cur + 4 > Len(pl.buf)
    THEN IF cur > 0
         THEN [pl |-> [pl EXCEPT !.buf = SliceFrom(pl.buf, cur)],
               r |-> R("ok", Slice(pl.buf, 0, cur))]
         ELSE [pl |-> pl, r |-> R("pending", <<>>)]
    ELSE IF \/ Slice(pl.buf, cur, cur + 2) = CRLF
               /\ Slice(pl.buf, cur + 2, cur + 4) = DASHDASH
            \/ Slice(pl.buf, cur + 1, cur + 3) = DASHDASH
    THEN IF cur # 0
         THEN [pl |-> [pl EXCEPT !.buf = SliceFrom(pl.buf, cur)],
               r |-> R("ok", Slice(pl.buf, 0, cur))]
         ELSE read_stream_scan(pl, cur + 1)
    ELSE read_stream_scan(pl, cur + 1)

\* The scan loop of InnerField::read_stream, from position pos.
read_stream_scan(pl, pos) ==
    read_stream_at(pl, find_bytes(SliceFrom(pl.buf, pos), <<CR>>) >= 0,
                   scan_cur(pl, pos))

\* read_stream where a marker prefix at the head of the buffer ends the
\* part, whatever follows it.
read_stream_head_any(pl, boundary, b_len) ==
    IF Len(pl.buf) = 0
    THEN [pl |-> pl,
          r |-> IF pl.eof THEN Err("Incomplete") ELSE R("pending", <<>>)]
    ELSE IF b_len # 0 THEN [pl |-> pl, r |-> R("none", <<>>)]
    ELSE read_stream_scan(pl, 0)

\* InnerField::read_stream, b_len being the marker prefix at the head
read_stream_head(pl, boundary, b_len) ==
    IF Len(pl.buf) = 0
    THEN [pl |-> pl,
          r |-> IF pl.eof THEN Err("Incomplete") ELSE R("pending", <<>>)]
    ELSE IF b_len # 0 /\ Len(pl.buf) < Len(boundary) + b_len
    THEN [pl |-> pl, r |-> R("pending", <<>>)]
    ELSE IF b_len # 0
            /\ Slice(pl.buf, b_len, Len(boundary) + b_len) = boundary
    THEN [pl |-> pl, r |-> R("none", <<>>)]
    ELSE read_stream_scan(pl, 0)

\* InnerField::read_stream
read_stream(pl, boundary) ==
    read_stream_head(pl, boundary, boundary_prefix(pl.buf))

\* InnerField::poll where the field keeps its payload at its end.
field_trailing_keep(f, line) ==
    CASE line.r.k = "none" ->
            [f |-> [f EXCEPT !.eof = TRUE], pl |-> line.pl,
             r |-> R("pending", <<>>)]
      [] line.r.k = "some" ->
            [f |-> [f EXCEPT !.eof = TRUE], pl |-> line.pl, r |-> R("none", <<>>)]
      [] OTHER ->
            [f |-> [f EXCEPT !.eof = TRUE], pl |-> line.pl, r |-> line.r]

\* InnerField::poll once the latch is set: line is payload.readline()
field_trailing(f, line) ==
    CASE line.r.k = "none" ->
            [f |-> [f EXCEPT !.eof = TRUE], pl |-> line.pl,
             r |-> R("pending", <<>>)]
      [] line.r.k = "some" ->
            [f |-> [f EXCEPT !.eof = TRUE, !.payload = FALSE], pl |-> line.pl,
             r |-> R("none", <<>>)]
      [] OTHER ->
            [f |-> [f EXCEPT !.eof = TRUE], pl |-> line.pl, r |-> line.r]

\* InnerField::poll after the read (read_len or read_stream) returned res
field_after_read(f, res) ==
    IF res.r.k # "none"
    THEN [f |-> f, pl |-> res.pl, r |-> res.r]
    ELSE field_trailing(f, readline(res.pl))

\* InnerField::poll in known length mode: rl is what read_len returned
field_after_len(f, rl) ==
    field_after_read([f EXCEPT !.length = rl.size], [pl |-> rl.pl, r |-> rl.r])

\* InnerField::poll; cur is  payload.get_mut(s).is_some(), that is s.current().
InnerField_poll(f, pl, boundary, cur) ==
    IF ~f.payload THEN [f |-> f, pl |-> pl, r |-> R("none", <<>>)]
    ELSE IF ~cur THEN [f |-> f, pl |-> pl, r |-> R("pending", <<>>)]
    ELSE IF f.eof THEN field_trailing(f, readline(pl))
    ELSE IF f.length # NoLength THEN field_after_len(f, read_len(pl, f.length))
    ELSE field_after_read(f, read_stream(pl, boundary))

\* ---------------------------------------------------------- header values
\* Parsed headers are a sequence of <<name byte, value bytes>>.

HeaderNames == {"L", "T", "D", "H"}

Digits == {"0", "1", "2", "3", "4", "5", "6", "7", "8", "9"}

DigitVal(d) ==
    CASE d = "0" -> 0 [] d = "1" -> 1 [] d = "2" -> 2 [] d = "3" -> 3
      [] d = "4" -> 4 [] d = "5" -> 5 [] d = "6" -> 6 [] d = "7" -> 7
      [] d = "8" -> 8 [] OTHER -> 9

\* str::parse::<u64> of a header value: the number, or -1 for Err.
RECURSIVE parse_u64(_, _)
parse_u64(v, acc) ==
    IF v = <<>> THEN acc
    ELSE IF Head(v) \notin Digits THEN -1
    ELSE parse_u64(Tail(v), 10 * acc + DigitVal(Head(v)))

\* HeaderMap::get: the first value of the name, as <<value>>, or <<>>.
RECURSIVE header_get(_, _)
header_get(hdrs, name) ==
    IF hdrs = <<>> THEN <<>>
    ELSE IF Head(hdrs)[1] = name THEN <<Head(hdrs)[2]>>
    ELSE header_get(Tail(hdrs), name)

\* httparse::parse_headers on the block read_headers cut off (it ends with
\* CR LF CR LF): header lines up to the empty line.  A line that does not
\* start with a header name, or a 33rd line, is an error.
RECURSIVE parse_headers(_, _)
\* parse_headers into an array without an end.
parse_header_line_unbounded(bytes, acc, idx) ==
    IF idx < 0 THEN [k |-> "err", h |-> <<>>]
    ELSE IF idx = 0 THEN [k |-> "ok", h |-> acc]
    ELSE IF \/ bytes[1] \notin HeaderNames
            \/ \E i \in 2..idx : bytes[i] \in {CR, LF}
    THEN [k |-> "err", h |-> <<>>]
    ELSE parse_headers(SliceFrom(bytes, idx + 2),
                       Append(acc, <<bytes[1], Slice(bytes, 1, idx)>>))

parse_header_line(bytes, acc, idx) ==
    IF idx < 0 THEN [k |-> "err", h |-> <<>>]
    ELSE IF idx = 0 THEN [k |-> "ok", h |-> acc]
    ELSE IF \/ bytes[1] \notin HeaderNames
            \/ \E i \in 2..idx : bytes[i] \in {CR, LF}
            \/ Len(acc) >= MAX_HEADERS
    THEN [k |-> "err", h |-> <<>>]
    ELSE parse_headers(SliceFrom(bytes, idx + 2),
                       Append(acc, <<bytes[1], Slice(bytes, 1, idx)>>))

parse_headers(bytes, acc) == parse_header_line(bytes, acc, find_bytes(bytes, CRLF))

\* HeaderValue::to_str: Ok when every byte is visible ASCII.  NonAscii is a
\* byte that is not.
NonAscii == "E9"

to_str(v) == \A i \in 1..Len(v) : v[i] # NonAscii

\* str::parse::<Mime> of a Content-Type value.  A media type is written
\* <type byte> ( ";" key "=" value )*  with the type bytes "t" (text/plain),
\* "m" (multipart/mixed) and "F" (multipart/form-data); a value is a token
\* or a quoted string, whose quotes are not part of the value.
MimeTypes == {"t", "m", "F"}

QUOTE == "\""

NoMime == [ok |-> FALSE, essence |-> "", params |-> <<>>]

mime_value(v) ==
    IF v = <<>> THEN [ok |-> FALSE, v |-> <<>>]
    ELSE IF Head(v) = QUOTE
    THEN IF /\ Len(v) >= 2 /\ v[Len(v)] = QUOTE
            /\ \A i \in 2..(Len(v) - 1) : v[i] # QUOTE
         THEN [ok |-> TRUE, v |-> Slice(v, 1, Len(v) - 1)]
         ELSE [ok |-> FALSE, v |-> <<>>]
    ELSE [ok |-> \A i \in 1..Len(v) : v[i] # QUOTE, v |-> v]

mime_param(section, idx, value, more) ==
    IF idx <= 0 \/ ~value.ok \/ ~more.ok THEN NoMime
    ELSE [ok |-> TRUE, essence |-> "",
          params |-> <<<<Slice(section, 0, idx), value.v>>>> \o more.params]

RECURSIVE mime_params(_)
mime_section(section, idx, rest) ==
    mime_param(section, idx,
               IF idx <= 0 THEN [ok |-> FALSE, v |-> <<>>]
               ELSE mime_value(SliceFrom(section, idx + 1)),
               mime_params(rest))

mime_params(sections) ==
    IF sections = <<>> THEN [ok |-> TRUE, essence |-> "", params |-> <<>>]
    ELSE mime_section(Head(sections), find_bytes(Head(sections), <<"=">>),
                      Tail(sections))

\* str::split
RECURSIVE split(_, _)
split_at(str, sep, idx) ==
    IF idx < 0 THEN <<str>>
    ELSE <<Slice(str, 0, idx)>> \o split(SliceFrom(str, idx + 1), sep)

split(str, sep) == split_at(str, sep, find_bytes(str, <<sep>>))

Mime_parse(v) ==
    IF v = <<>> \/ Head(v) \notin MimeTypes THEN NoMime
    ELSE IF Len(v) = 1 THEN [ok |-> TRUE, essence |-> v[1], params |-> <<>>]
    ELSE IF v[2] # ";" THEN NoMime
    ELSE [mime_params(split(SliceFrom(v, 2), ";")) EXCEPT !.essence = v[1]]

\* Mime::type_, "none" for a value that did not parse.
mime_type(ct) ==
    IF ~ct.ok \/ ct.essence = "" THEN "none"
    ELSE IF ct.essence = "t" THEN "text"
    ELSE "multipart"

\* Mime::get_param: the value of the first parameter of that name, as
\* <<value>>, or <<>>.
RECURSIVE get_param(_, _)
get_param(params, name) ==
    IF params = <<>> THEN <<>>
    ELSE IF Head(params)[1] = name THEN <<Head(params)[2]>>
    ELSE get_param(Tail(params), name)

\* The type of a Content-Type value: to_str, then parse::<Mime>.
parse_mime(v) == IF to_str(v) THEN mime_type(Mime_parse(v)) ELSE "none"

\* The parameters of ContentDisposition::parse_header: every section after
\* the first is key=value ("n" is the key name).
\* [ok, name: <<value>> or <<>>]
RECURSIVE disposition_params(_)
disposition_param(section, parts, more) ==
    IF Len(parts) < 2 THEN [ok |-> FALSE, name |-> <<>>]
    ELSE IF ~more.ok THEN more
    ELSE IF parts[1] = <<"n">>
    THEN [ok |-> TRUE, name |-> <<SliceFrom(section, 2)>>]
    ELSE more

disposition_params(sections) ==
    IF sections = <<>> THEN [ok |-> TRUE, name |-> <<>>]
    ELSE disposition_param(Head(sections), split(Head(sections), "="),
                           disposition_params(Tail(sections)))

\* ContentDisposition::parse_header, sections being the value split at ";":
\* the first section is the disposition ("f" is form-data).
disposition_of(sections, params) ==
    [ok |-> params.ok, disposition |-> Head(sections), name |-> params.name]

ContentDisposition_parse_header(v) ==
    disposition_of(split(v, ";"), disposition_params(Tail(split(v, ";"))))

FormData == <<"f">>

\* ---------------------------------------------------------- InnerMultipart

CRLFCRLF == CRLF \o CRLF

\* InnerMultipart::read_headers once the block is cut off and parsed
headers_parsed(pl, parsed) ==
    IF parsed.k = "ok"
    THEN [pl |-> pl, r |-> R("some", <<>>), h |-> parsed.h]
    ELSE [pl |-> pl, r |-> Err("Decode"), h |-> <<>>]

\* InnerMultipart::read_headers, ru being payload.read_until(b"\r\n\r\n")
headers_block(ru) ==
    CASE ru.r.k = "err" -> [pl |-> ru.pl, r |-> ru.r, h |-> <<>>]
      [] ru.r.k = "none" ->
            [pl |-> ru.pl, h |-> <<>>,
             r |-> IF ru.pl.eof THEN Err("Incomplete") ELSE R("none", <<>>)]
      [] OTHER -> headers_parsed(ru.pl, parse_headers(ru.r.v, <<>>))

\* InnerMultipart::read_headers
read_headers(pl) == headers_block(read_until(pl, CRLFCRLF))

\* read_boundary that does not look at what follows the closing boundary.
boundary_line_loose(chunk, boundary, n) ==
    IF \/ Len(chunk) < n + 4
       \/ Slice(chunk, 0, 2) # DASHDASH
       \/ Slice(chunk, 2, n + 2) # boundary
    THEN Err("Boundary")
    ELSE IF SliceFrom(chunk, n + 2) = CRLF
    THEN R("next", <<>>)
    ELSE IF Slice(chunk, n + 2, n + 4) = DASHDASH
    THEN R("eof", <<>>)
    ELSE Err("Boundary")

\* InnerMultipart::read_boundary on the line read: "eof" is Ok(Some(true)),
\* "next" is Ok(Some(false)).
boundary_line(chunk, boundary, n) ==
    IF \/ Len(chunk) < n + 4
       \/ Slice(chunk, 0, 2) # DASHDASH
       \/ Slice(chunk, 2, n + 2) # boundary
    THEN Err("Boundary")
    ELSE IF SliceFrom(chunk, n + 2) = CRLF
    THEN R("next", <<>>)
    ELSE IF /\ Slice(chunk, n + 2, n + 4) = DASHDASH
            /\ \/ Len(chunk) = n + 4
               \/ SliceFrom(chunk, n + 4) = CRLF
    THEN R("eof", <<>>)
    ELSE Err("Boundary")

\* InnerMultipart::read_boundary, rl being payload.readline_or_eof();
\* "none" is Ok(None).
boundary_read(rl, boundary) ==
    CASE rl.r.k = "err" -> rl
      [] rl.r.k = "none" ->
            [pl |-> rl.pl,
             r |-> IF rl.pl.eof THEN R("eof", <<>>) ELSE R("none", <<>>)]
      [] OTHER ->
            [pl |-> rl.pl, r |-> boundary_line(rl.r.v, boundary, Len(boundary))]

\* InnerMultipart::read_boundary
read_boundary(pl, boundary) == boundary_read(readline_or_eof(pl), boundary)

\* One round of the loop of InnerMultipart::skip_until_boundary on the line
\* read; a slice whose range is out of order or past the end of the line
\* panics.  "skip" is  continue.
skip_line(chunk, boundary, n, len) ==
    IF len = 0 THEN Err("Boundary")
    ELSE IF len < n THEN R("skip", <<>>)
    ELSE IF len < 2 THEN R("panic", <<>>)
    ELSE IF Slice(chunk, 0, 2) = DASHDASH /\ len < 4 THEN R("panic", <<>>)
    ELSE IF Slice(chunk, 0, 2) = DASHDASH /\ Slice(chunk, 2, len - 2) = boundary
    THEN R("next", <<>>)
    ELSE IF len < n + 2 THEN R("skip", <<>>)
    ELSE IF Slice(chunk, 0, n) = boundary /\ Slice(chunk, n, n + 2) = DASHDASH
    THEN R("eof", <<>>)
    ELSE R("skip", <<>>)

\* The loop of InnerMultipart::skip_until_boundary, rl being
\* payload.readline() and line what the round makes of it.
RECURSIVE skip_until_boundary(_, _)
skip_round(rl, line, boundary) ==
    IF line.k = "skip" THEN skip_until_boundary(rl.pl, boundary)
    ELSE [pl |-> rl.pl, r |-> line]

skip_read(rl, boundary) ==
    CASE rl.r.k = "err" -> rl
      [] rl.r.k = "none" ->
            [pl |-> rl.pl,
             r |-> IF rl.pl.eof THEN Err("Incomplete") ELSE R("none", <<>>)]
      [] OTHER ->
            skip_round(rl, skip_line(rl.r.v, boundary, Len(boundary), Len(rl.r.v)),
                       boundary)

\* InnerMultipart::skip_until_boundary
skip_until_boundary(pl, boundary) == skip_read(readline(pl), boundary)

\* An inner field that is not there (InnerMultipartItem::None).
NoField == [payload |-> FALSE, eof |-> FALSE, length |-> NoLength]

\* InnerField::new, len being headers.get(CONTENT_LENGTH): the declared
\* length.  [ok, f]
field_of_length(len, n) ==
    IF len = <<>>
    THEN [ok |-> TRUE,
          f |-> [payload |-> TRUE, eof |-> FALSE, length |-> NoLength]]
    ELSE IF len[1] = <<>> \/ n < 0
    THEN [ok |-> FALSE, f |-> NoField]
    ELSE [ok |-> TRUE, f |-> [payload |-> TRUE, eof |-> FALSE, length |-> n]]

\* InnerField::new
InnerField_new(hdrs) ==
    field_of_length(header_get(hdrs, "L"),
                    IF header_get(hdrs, "L") = <<>> THEN -1
                    ELSE parse_u64(header_get(hdrs, "L")[1], 0))

\* The "release field" loop of InnerMultipart::poll: the in-flight field is
\* polled until it is pending, fails or ends.
RECURSIVE release_field(_, _, _)
release_next(p, boundary) ==
    IF p.r.k = "ok" THEN release_field(p.f, p.pl, boundary) ELSE p

release_field(f, pl, boundary) ==
    release_next(InnerField_poll(f, pl, boundary, TRUE), boundary)

\* What InnerMultipart::poll leaves behind: the state, whether the slot
\* holds a field, that field, the payload, the result and, for a new field,
\* its headers and form field name; path is the states the poll has
\* assigned to self.state, in order.
MPRes(state, item, f, pl, r) ==
    [state |-> state, item |-> item, f |-> f, pl |-> pl, r |-> r,
     hdrs |-> <<>>, name |-> <<>>, path |-> <<>>]

\* self.state = state, before the rest of the poll, which left res.
Entered(state, res) == [res EXCEPT !.path = <<state>> \o @]

\* The same with the field the release loop has driven (it is shared with
\* the Field handed out for it).
WithReleased(res, was) ==
    [state |-> res.state, item |-> res.item, f |-> res.f, pl |-> res.pl,
     r |-> res.r, hdrs |-> res.hdrs, name |-> res.name, path |-> res.path,
     was |-> was]

\* InnerMultipart::poll that hands out a part of a multipart type as well.
emit_checked_nested(hdrs, formData, pl, has_cd, cd, ct, new) ==
    IF formData /\ ~has_cd
    THEN MPRes("Boundary", FALSE, NoField, pl, Err("ContentDispositionMissing"))
    ELSE IF formData /\ cd.name = <<>>
    THEN MPRes("Boundary", FALSE, NoField, pl,
               Err("ContentDispositionNameMissing"))
    ELSE IF ~new.ok
    THEN MPRes("Boundary", FALSE, NoField, pl, Err("Payload"))
    ELSE [state |-> "Boundary", item |-> TRUE, f |-> new.f, pl |-> pl,
          r |-> R("field", <<>>), hdrs |-> hdrs,
          name |-> IF formData THEN cd.name ELSE <<>>, path |-> <<>>]

\* InnerMultipart::poll from the parsed headers on (lines 330-387): has_cd
\* is field_content_disposition.is_some(), cd the parsed disposition, ct the
\* type of field_content_type, new what InnerField::new returns.
emit_checked(hdrs, formData, pl, has_cd, cd, ct, new) ==
    IF formData /\ ~has_cd
    THEN MPRes("Boundary", FALSE, NoField, pl, Err("ContentDispositionMissing"))
    ELSE IF formData /\ cd.name = <<>>
    THEN MPRes("Boundary", FALSE, NoField, pl,
               Err("ContentDispositionNameMissing"))
    ELSE IF ct = "multipart"
    THEN MPRes("Boundary", FALSE, NoField, pl, Err("Nested"))
    ELSE IF ~new.ok
    THEN MPRes("Boundary", FALSE, NoField, pl, Err("Payload"))
    ELSE [state |-> "Boundary", item |-> TRUE, f |-> new.f, pl |-> pl,
          r |-> R("field", <<>>), hdrs |-> hdrs,
          name |-> IF formData THEN cd.name ELSE <<>>, path |-> <<>>]

\* The Content-Disposition of the field, cdv being headers.get of it.
disposition(cdv) ==
    IF cdv = <<>> THEN [ok |-> FALSE, disposition |-> <<>>, name |-> <<>>]
    ELSE ContentDisposition_parse_header(cdv[1])

\* The type of the Content-Type of the field, ctv being headers.get of it.
content_type(ctv) == IF ctv = <<>> THEN "none" ELSE parse_mime(ctv[1])

emit_with(hdrs, formData, pl, cd) ==
    emit_checked(hdrs, formData, pl, cd.ok /\ cd.disposition = FormData, cd,
                 content_type(header_get(hdrs, "T")), InnerField_new(hdrs))

emit_field(hdrs, formData, pl) ==
    emit_with(hdrs, formData, pl, disposition(header_get(hdrs, "D")))

\* InnerMultipart::poll that sets the state Boundary before it looks at
\* what read_headers returned.
after_headers_early(formData, rh) ==
    CASE rh.r.k = "err" ->
            Entered("Boundary", MPRes("Boundary", FALSE, NoField, rh.pl, rh.r))
      [] rh.r.k = "none" ->
            MPRes("Headers", FALSE, NoField, rh.pl, R("pending", <<>>))
      [] OTHER -> Entered("Boundary", emit_field(rh.h, formData, rh.pl))

\* InnerMultipart::poll in state Headers (lines 315-324, then 330-387), rh
\* being what read_headers returned.
after_headers(formData, rh) ==
    CASE rh.r.k = "err" -> MPRes("Headers", FALSE, NoField, rh.pl, rh.r)
      [] rh.r.k = "none" ->
            MPRes("Headers", FALSE, NoField, rh.pl, R("pending", <<>>))
      [] OTHER -> Entered("Boundary", emit_field(rh.h, formData, rh.pl))

poll_headers(formData, pl) == after_headers(formData, read_headers(pl))

\* The boundary reads of InnerMultipart::poll (lines 280-312): the first
\* boundary in state FirstBoundary, the next one in state Boundary; rb is
\* what the read returned.
after_boundary(m, rb) ==
    CASE rb.r.k \in {"err", "panic"} ->
            MPRes(m.state, FALSE, NoField, rb.pl, rb.r)
      [] rb.r.k = "none" ->
            MPRes(m.state, FALSE, NoField, rb.pl, R("pending", <<>>))
      [] rb.r.k = "eof" ->
            Entered("Eof", MPRes("Eof", FALSE, NoField, rb.pl, R("none", <<>>)))
      [] OTHER -> Entered("Headers", poll_headers(m.formData, rb.pl))

poll_boundary(m, pl) ==
    after_boundary(m, IF m.state = "FirstBoundary"
                      THEN skip_until_boundary(pl, m.boundary)
                      ELSE read_boundary(pl, m.boundary))

\* InnerMultipart::poll after the release loop, which left rel.
after_release(m, rel) ==
    WithReleased(IF rel.r.k # "none"
                 THEN MPRes(m.state, m.item, rel.f, rel.pl, rel.r)
                 ELSE IF m.state = "Headers"
                 THEN poll_headers(m.formData, rel.pl)
                 ELSE poll_boundary(m, rel.pl),
                 rel.f)

\* InnerMultipart::poll that does not look at the state Eof first: the bytes
\* after the closing boundary are read as one more boundary.
InnerMultipart_poll_reread(m, f, pl, cur) ==
    IF ~cur
    THEN WithReleased(MPRes(m.state, m.item, f, pl, R("hang", <<>>)), f)
    ELSE after_release(m, IF m.item THEN release_field(f, pl, m.boundary)
                          ELSE [f |-> f, pl |-> pl, r |-> R("none", <<>>)])

\* InnerMultipart::poll.  m is [state, item, boundary, formData], f the field
\* in the slot; cur is safety.current().  Without the token the release loop
\* never ends ("hang").
InnerMultipart_poll(m, f, pl, cur) ==
    IF m.state = "Eof"
    THEN WithReleased(MPRes(m.state, m.item, f, pl, R("none", <<>>)), f)
    ELSE IF ~cur
    THEN WithReleased(MPRes(m.state, m.item, f, pl, R("hang", <<>>)), f)
    ELSE after_release(m, IF m.item THEN release_field(f, pl, m.boundary)
                          ELSE [f |-> f, pl |-> pl, r |-> R("none", <<>>)])

\* ------------------------------------------------------------------ Limits
\* Limits is [total, memory, field]: total_limit_remaining,
\* memory_limit_remaining and field_limit_remaining, which is None (NoLimit)
\* or a number of bytes.
NoLimit == -1

\* Limits::new
Limits_new(total_limit, memory_limit) ==
    [total |-> total_limit, memory |-> memory_limit, field |-> NoLimit]

Overflow == R("err", <<"Payload", "Overflow">>)

\* try_consume_limits that does not look at the limit of the field.
try_consume_limits_unbounded(l, bytes, in_memory) ==
    IF l.total < bytes THEN [l |-> l, r |-> Overflow]
    ELSE IF in_memory /\ l.memory < bytes
    THEN [l |-> [l EXCEPT !.total = @ - bytes], r |-> Overflow]
    ELSE [l |-> [l EXCEPT !.total = @ - bytes,
                          !.memory = IF in_memory THEN @ - bytes ELSE @],
          r |-> R("ok", <<>>)]

\* Limits::try_consume_limits: three checked_sub in a row, each stored
\* before the next is tried, the first that fails returns the error.
try_consume_limits(l, bytes, in_memory) ==
    IF l.total < bytes THEN [l |-> l, r |-> Overflow]
    ELSE IF in_memory /\ l.memory < bytes
    THEN [l |-> [l EXCEPT !.total = @ - bytes], r |-> Overflow]
    ELSE IF l.field # NoLimit /\ l.field < bytes
    THEN [l |-> [l EXCEPT !.total = @ - bytes,
                          !.memory = IF in_memory THEN @ - bytes ELSE @],
          r |-> Overflow]
    ELSE [l |-> [l EXCEPT !.total = @ - bytes,
                          !.memory = IF in_memory THEN @ - bytes ELSE @,
                          !.field = IF @ # NoLimit THEN @ - bytes ELSE @],
          r |-> R("ok", <<>>)]

\* The limit a field starts from when every field starts from T::limit.
field_entry_fresh(field_limits, name, limit) == limit

\* MultipartForm::from_request:  field_limits.entry(name).or_insert_with(||
\* T::limit(name)), limit being T::limit(name).
field_entry(field_limits, name, limit) ==
    IF name \in DOMAIN field_limits THEN field_limits[name] ELSE limit

\* ------------------------------------------------------------------ state

VARIABLES
    input,      \* the request: [headers, boundary, formData, error, pre,
                \* parts, crlf, epi]
    feed,       \* how the sender feeds the body: "whole", "bytes" or "any"
    rest,       \* the bytes of the body the sender has not sent yet
    chan,       \* the upstream channel: the chunks that are ready
    closed,     \* the sender is dropped: the channel ends after its chunks
    payload,    \* PayloadBuffer: [buf, eof]
    clean,      \* Safety.clean, the cell the tokens share
    mp,         \* Multipart: [alive, error, inner, state, item] and the
                \* states its parser has been in so far: [trail]
    fields,     \* the Fields handed out: [alive, level, task, inner, hdrs,
                \* name]
                \* and what each has given its consumer: [declared, data, fin,
                \* error]
    last,       \* the last call and its result: [op, i, cur, r]
    log,        \* the run of the draining consumer: [ok, outcome]
    form        \* the typed form extraction: [limits, field_limits, name,
                \* chunks, todo, accepted, result]

vars ==
    <<input, feed, rest, chan, closed, payload, clean, mp, fields, last, log,
      form>>

\* The root token's level (Safety::new: the strong count of a new Rc).
RootLevel == 1

Live == {i \in 1..Len(fields) : fields[i].alive}

\* The count where the token of a dropped Multipart is still counted.
strong_count_leaked == 1 + Cardinality(Live)

\* Rc::strong_count(&safety.payload): one per token that is not dropped.
strong_count == (IF mp.alive THEN 1 ELSE 0) + Cardinality(Live)

\* Safety::current without the count: every token is current.
current_any(level) == clean

\* Safety::current where a token under newer ones is current as well.
current_atleast(level) == strong_count >= level /\ clean

\* Safety::current
current(level) == strong_count = level /\ clean

\* Safety::is_clean
is_clean == clean

\* Drop for Safety: the value of clean after the token of that level is
\* dropped (the count still includes the token).
Safety_drop(level) == IF strong_count # level THEN TRUE ELSE clean

\* Drop for Safety that lets its waker go without waking it.
Safety_forget(task) == "dropped"

\* Drop for Safety, the waker: task is the LocalWaker of the token, which
\* Safety::clone has registered with the waker of the poll that made the
\* token; the drop takes it and wakes it.
Safety_wake(task) == IF task = "registered" THEN "woken" ELSE task

\* Safety::clone where the level is taken before the payload is cloned.
Safety_clone_stale == strong_count

\* Safety::clone: the level of the new token.
Safety_clone == strong_count + 1

Panicked == last.r.k = "panic"

\* ------------------------------------------------------------ the consumer
\* The draining consumer polls the outer stream, drains every part to its
\* end and then drops it.  log.ok says that the consumer has been this one
\* so far; log.outcome is how its run ended: the end of the outer stream, an
\* error, a panic, or a poll that is pending although the payload has seen
\* the end of the upstream ("stuck").  Whatever the consumer does after the
\* outcome makes it another consumer.

Logging == log.ok /\ log.outcome = <<>>

Other == [ok |-> FALSE, outcome |-> <<>>]

Outcome(r, eof) ==
    CASE r.k = "none" -> <<"eos">>
      [] r.k = "err" -> <<"err", r.v[1]>>
      [] r.k = "panic" -> <<"panic">>
      [] r.k = "hang" -> <<"hang">>
      [] r.k = "pending" /\ eof -> <<"stuck">>
      [] OTHER -> <<>>

NewPart(hdrs) == [hdrs |-> hdrs, data |-> <<>>, done |-> FALSE]

LogOuter(r, cur, eof) ==
    IF ~Logging \/ ~cur THEN Other
    ELSE IF r.k = "field" THEN log
    ELSE [log EXCEPT !.outcome = Outcome(r, eof)]

LogField(i, r, cur, eof) ==
    IF ~Logging \/ ~cur \/ i # Len(fields) \/ fields[i].fin # "open" THEN Other
    ELSE IF r.k \in {"ok", "none"} THEN log
    ELSE [log EXCEPT !.outcome = Outcome(r, eof)]

LogDropField(i) ==
    IF ~Logging \/ fields[i].fin # "eos" THEN Other ELSE log

LogDropOuter == Other

\* ---------------------------------------------------------------- actions

Called(op, i, cur, r) == last' = [op |-> op, i |-> i, cur |-> cur, r |-> r]

\* The sender puts the next k bytes of the body into the channel, once the
\* chunk before is taken (poll_stream takes every chunk that is ready, so
\* two chunks in the channel are one longer chunk).
Feed ==
    /\ ~Panicked /\ ~closed /\ rest # <<>> /\ chan = <<>>
    /\ \E k \in 1..Len(rest) :
          /\ feed = "whole" => k = Len(rest)
          /\ feed = "bytes" => k = 1
          /\ chan' = Append(chan, Slice(rest, 0, k))
          /\ rest' = SliceFrom(rest, k)
    /\ Called("feed", 0, TRUE, R("ok", <<>>))
    /\ UNCHANGED <<input, feed, closed, payload, clean, mp, fields, log, form>>

\* The sender is dropped: the upstream ends after the chunks in the channel.
\* A sender that feeds byte by byte lets the last byte be read first.
Close ==
    /\ ~Panicked /\ ~closed /\ rest = <<>>
    /\ feed = "bytes" => chan = <<>>
    /\ closed' = TRUE
    /\ Called("close", 0, TRUE, R("ok", <<>>))
    /\ UNCHANGED <<input, feed, rest, chan, payload, clean, mp, fields, log,
                   form>>

\* The InnerMultipart of the Multipart and the field in its slot.
Inner ==
    [state |-> mp.state, item |-> mp.item # 0, boundary |-> input.boundary,
     formData |-> input.formData]

ItemField == IF mp.item # 0 THEN fields[mp.item].inner ELSE NoField

\* Field::new for the field InnerMultipart::poll emits; its name is
\* form_field_name.unwrap_or_default().
Field_new(res) ==
    [alive |-> TRUE, level |-> Safety_clone, inner |-> res.f, hdrs |-> res.hdrs,
     name |-> IF res.name = <<>> THEN <<>> ELSE res.name[1],
     task |-> "registered",
     declared |-> res.f.length, data |-> <<>>, fin |-> "open", error |-> ""]

\* The fields after InnerMultipart::poll: the field of the slot is as the
\* release loop left it, and a new field is handed out.
FieldsAfter(res) ==
    IF res.r.k = "field"
    THEN Append(IF mp.item # 0 THEN [fields EXCEPT ![mp.item].inner = res.was]
                ELSE fields,
                Field_new(res))
    ELSE IF mp.item # 0 THEN [fields EXCEPT ![mp.item].inner = res.was]
    ELSE fields

\* Multipart::poll_next with the token, after inner.poll returned res.
poll_next_inner(ps_chan, res) ==
    /\ payload' = res.pl
    /\ chan' = ps_chan
    /\ fields' = FieldsAfter(res)
    /\ mp' = [mp EXCEPT !.state = res.state,
                        !.item = IF res.r.k = "field" THEN Len(fields) + 1
                                 ELSE IF res.item THEN mp.item ELSE 0,
                        !.trail = @ \o res.path]
    /\ Called("poll_mp", 0, TRUE, res.r)
    /\ log' = LogOuter(res.r, TRUE, res.pl.eof)
    /\ UNCHANGED clean

\* Multipart::poll_next with the token, after payload.poll_stream returned ps.
poll_next_stream(ps) ==
    IF ps.r.k = "err"
    THEN /\ payload' = ps.pl
         /\ chan' = ps.chan
         /\ Called("poll_mp", 0, TRUE, ps.r)
         /\ log' = LogOuter(ps.r, TRUE, ps.pl.eof)
         /\ UNCHANGED <<fields, clean, mp>>
    ELSE poll_next_inner(ps.chan, InnerMultipart_poll(Inner, ItemField, ps.pl, TRUE))

\* The result of a poll through a token that is not current.
NotCurrent == IF ~is_clean THEN Err("NotConsumed") ELSE R("pending", <<>>)

\* Multipart::poll_next
PollMultipart ==
    /\ ~Panicked /\ mp.alive
    /\ IF mp.error # ""
       THEN /\ mp' = [mp EXCEPT !.error = ""]
            /\ Called("poll_mp", 0, TRUE, Err(mp.error))
            /\ log' = LogOuter(Err(mp.error), TRUE, payload.eof)
            /\ UNCHANGED <<chan, payload, fields, clean>>
       ELSE IF current(RootLevel) /\ ~mp.inner
       THEN /\ Called("poll_mp", 0, TRUE, R("panic", <<>>))
            /\ log' = LogOuter(R("panic", <<>>), TRUE, payload.eof)
            /\ UNCHANGED <<chan, payload, fields, clean, mp>>
       ELSE IF current(RootLevel)
       THEN poll_next_stream(poll_stream(payload, chan, closed))
       ELSE /\ Called("poll_mp", 0, FALSE, NotCurrent)
            /\ log' = LogOuter(NotCurrent, FALSE, payload.eof)
            /\ UNCHANGED <<chan, payload, fields, clean, mp>>
    /\ UNCHANGED <<input, feed, rest, closed, form>>

\* What the consumer of the i-th field has got from it.
Given(fs, i, r) ==
    [fs EXCEPT ![i].data = IF r.k = "ok" THEN @ \o r.v ELSE @,
               ![i].fin = IF r.k = "none" THEN "eos"
                          ELSE IF r.k = "err" THEN "err" ELSE @,
               ![i].error = IF r.k = "err" THEN r.v[1] ELSE @]

\* Field::poll_next with the token, after inner.poll returned p.
field_next_inner(i, ps_chan, p) ==
    /\ payload' = p.pl
    /\ chan' = ps_chan
    /\ fields' = Given([fields EXCEPT ![i].inner = p.f], i, p.r)
    /\ Called("poll_field", i, TRUE, p.r)
    /\ log' = LogField(i, p.r, TRUE, p.pl.eof)

\* Field::poll_next with the token, after payload.poll_stream returned ps.
field_next_stream(i, ps) ==
    IF ps.r.k = "err"
    THEN /\ payload' = ps.pl
         /\ chan' = ps.chan
         /\ fields' = Given(fields, i, ps.r)
         /\ Called("poll_field", i, TRUE, ps.r)
         /\ log' = LogField(i, ps.r, TRUE, ps.pl.eof)
    ELSE field_next_inner(i, ps.chan,
                          InnerField_poll(fields[i].inner, ps.pl, input.boundary,
                                          TRUE))

\* Field::poll_next that gives the end again once the field has released
\* its payload.
Field_poll_next_fused(i) ==
    IF current(fields[i].level) /\ ~fields[i].inner.payload
    THEN /\ Called("poll_field", i, TRUE, R("none", <<>>))
         /\ log' = LogField(i, R("none", <<>>), TRUE, payload.eof)
         /\ UNCHANGED <<chan, payload, fields>>
    ELSE IF current(fields[i].level)
    THEN field_next_stream(i, poll_stream(payload, chan, closed))
    ELSE /\ Called("poll_field", i, FALSE, NotCurrent)
         /\ log' = LogField(i, NotCurrent, FALSE, payload.eof)
         /\ UNCHANGED <<chan, payload, fields>>

\* Field::poll_next of the i-th field handed out
Field_poll_next(i) ==
    IF current(fields[i].level) /\ ~fields[i].inner.payload
    THEN /\ Called("poll_field", i, TRUE, R("panic", <<>>))
         /\ log' = LogField(i, R("panic", <<>>), TRUE, payload.eof)
         /\ UNCHANGED <<chan, payload, fields>>
    ELSE IF current(fields[i].level)
    THEN field_next_stream(i, poll_stream(payload, chan, closed))
    ELSE /\ Called("poll_field", i, FALSE, NotCurrent)
         /\ log' = LogField(i, NotCurrent, FALSE, payload.eof)
         /\ UNCHANGED <<chan, payload, fields>>

PollField ==
    /\ ~Panicked
    /\ \E i \in Live : Field_poll_next(i)
    /\ UNCHANGED <<input, feed, rest, closed, clean, mp, form>>

\* The consumer drops the i-th field: Drop for Safety.
DropField ==
    /\ ~Panicked
    /\ \E i \in Live :
        /\ clean' = Safety_drop(fields[i].level)
        /\ fields' = [fields EXCEPT ![i].alive = FALSE,
                                    ![i].task = Safety_wake(@)]
        /\ Called("drop_field", i, current(fields[i].level), R("ok", <<>>))
        /\ log' = LogDropField(i)
    /\ UNCHANGED <<input, feed, rest, chan, closed, payload, mp, form>>

\* The consumer drops the Multipart: Drop for Safety of the root token, then
\* Drop for InnerMultipart.
DropMultipart ==
    /\ ~Panicked /\ mp.alive
    /\ clean' = Safety_drop(RootLevel)
    /\ mp' = [mp EXCEPT !.alive = FALSE, !.inner = FALSE, !.item = 0]
    /\ Called("drop_mp", 0, current(RootLevel), R("ok", <<>>))
    /\ log' = LogDropOuter
    /\ UNCHANGED <<input, feed, rest, chan, closed, payload, fields, form>>

Next == Feed \/ Close \/ PollMultipart \/ PollField \/ DropField \/ DropMultipart

\* Multipart::content_type: the stored error, taken out of the Multipart, or
\* the media type of the request; without an InnerMultipart the unwrap
\* panics.  Only the extractor calls it, and nothing but the stored error
\* changes with it.
ContentType ==
    /\ ~Panicked /\ mp.alive
    /\ mp' = [mp EXCEPT !.error = ""]
    /\ Called("content_type", 0, TRUE,
              IF mp.error # "" THEN Err(mp.error)
              ELSE IF ~mp.inner THEN R("panic", <<>>)
              ELSE R("ok", <<header_get(input.headers, "T")[1][1]>>))
    /\ log' = Other
    /\ UNCHANGED <<input, feed, rest, chan, closed, payload, clean, fields,
                   form>>

NextInit == Next \/ ContentType

\* The upstream fails: its next item is the error e, and it is its last.
UpstreamErrors == {"e1", "e2"}

Fail ==
    /\ ~Panicked /\ ~closed
    /\ \E e \in UpstreamErrors : chan' = Append(chan, <<"!error", e>>)
    /\ closed' = TRUE
    /\ Called("fail", 0, TRUE, R("ok", <<>>))
    /\ UNCHANGED <<input, feed, rest, payload, clean, mp, fields, log, form>>

NextFail == Next \/ Fail

\* ----------------------------------------------------------------- inputs
\* A request is [headers, boundary, formData, error, pre, parts, crlf, epi]:
\* its headers, the boundary and the subtype of the outer Content-Type (or
\* the error of Multipart::boundary), the preamble, the parts [hdrs, data],
\* whether CR LF follows the closing boundary, and the bytes after it.

Boundary == <<"b", "c">>

RECURSIVE RenderHeaders(_)
RenderHeaders(hdrs) ==
    IF hdrs = <<>> THEN CRLF
    ELSE <<Head(hdrs)[1]>> \o Head(hdrs)[2] \o CRLF \o RenderHeaders(Tail(hdrs))

RECURSIVE RenderParts(_, _)
RenderParts(parts, boundary) ==
    IF parts = <<>> THEN <<>>
    ELSE DASHDASH \o boundary \o CRLF \o RenderHeaders(Head(parts).hdrs)
         \o Head(parts).data \o CRLF \o RenderParts(Tail(parts), boundary)

Render(in) ==
    in.pre \o RenderParts(in.parts, in.boundary)
    \o DASHDASH \o in.boundary \o DASHDASH \o (IF in.crlf THEN CRLF ELSE <<>>)
    \o in.epi

Digit(n) ==
    CASE n = 0 -> "0" [] n = 1 -> "1" [] n = 2 -> "2" [] n = 3 -> "3"
      [] n = 4 -> "4" [] n = 5 -> "5" [] n = 6 -> "6" [] n = 7 -> "7"
      [] n = 8 -> "8" [] OTHER -> "9"

\* A part that declares its length, and one that does not.
LenPart(data) == [hdrs |-> <<<<"L", <<Digit(Len(data))>>>>>>, data |-> data]

StreamPart(data) == [hdrs |-> <<<<"T", <<"t">>>>>>, data |-> data]

SeqsUpTo(S, n) == UNION {[1..k -> S] : k \in 0..n}

\* What Multipart::boundary makes of the headers of the request: the error,
\* or the boundary and whether the subtype is form-data.
InitErr(e) == [error |-> e, boundary |-> <<>>, formData |-> FALSE]

\* Multipart::boundary that does not look at the top-level type.
boundary_param_any(ct, b) ==
    IF b = <<>> THEN InitErr("Boundary")
    ELSE [error |-> "", boundary |-> b[1], formData |-> ct.essence = "F"]

\* Multipart::boundary on the parsed media type, b being
\* ct.get_param(mime::BOUNDARY)
boundary_param(ct, b) ==
    IF mime_type(ct) # "multipart" THEN InitErr("IncompatibleContentType")
    ELSE IF b = <<>> THEN InitErr("Boundary")
    ELSE [error |-> "", boundary |-> b[1], formData |-> ct.essence = "F"]

\* Multipart::boundary on the value of the Content-Type header
boundary_parsed(ct) ==
    IF ~ct.ok THEN InitErr("ParseContentType")
    ELSE boundary_param(ct, get_param(ct.params, <<"B">>))

boundary_value(v) ==
    IF ~to_str(v) THEN InitErr("ParseContentType")
    ELSE boundary_parsed(Mime_parse(v))

\* Multipart::boundary
Multipart_boundary(headers) ==
    IF header_get(headers, "T") = <<>> THEN InitErr("NoContentType")
    ELSE boundary_value(header_get(headers, "T")[1])

\* The request with these headers: Multipart::new keeps the boundary and
\* the type, or the error.
RequestOf(headers, mb, pre, parts, crlf) ==
    [headers |-> headers, boundary |-> mb.boundary, formData |-> mb.formData,
     error |-> mb.error, pre |-> pre, parts |-> parts, crlf |-> crlf,
     epi |-> <<>>]

RequestWith(headers, pre, parts, crlf) ==
    RequestOf(headers, Multipart_boundary(headers), pre, parts, crlf)

\* Content-Type: multipart/mixed; boundary=bc
Mixed == <<<<"T", <<"m", ";", "B", "=">> \o Boundary>>>>

Request(pre, parts, crlf) == RequestWith(Mixed, pre, parts, crlf)

\* The stream that Multipart::new makes of the request, before any poll.
\* No typed form is extracted.
NoForm == [result |-> "none"]

Parser ==
    /\ chan = <<>>
    /\ closed = FALSE
    /\ payload = [buf |-> <<>>, eof |-> FALSE]
    /\ clean = TRUE
    /\ mp = [alive |-> TRUE, error |-> input.error, inner |-> input.error = "",
             state |-> "FirstBoundary", item |-> 0,
             trail |-> <<"FirstBoundary">>]
    /\ fields = <<>>
    /\ last = [op |-> "new", i |-> 0, cur |-> TRUE, r |-> R("ok", <<>>)]
    /\ log = [ok |-> TRUE, outcome |-> <<>>]

Created == Parser /\ form = NoForm

InitWith(feeds, inputs) ==
    /\ input \in inputs
    /\ feed \in feeds
    /\ rest = Render(input)
    /\ chan = <<>>
    /\ closed = FALSE
    /\ payload = [buf |-> <<>>, eof |-> FALSE]
    /\ clean = TRUE
    /\ mp = [alive |-> TRUE, error |-> input.error, inner |-> input.error = "",
             state |-> "FirstBoundary", item |-> 0,
             trail |-> <<"FirstBoundary">>]
    /\ fields = <<>>
    /\ last = [op |-> "new", i |-> 0, cur |-> TRUE, r |-> R("ok", <<>>)]
    /\ log = [ok |-> TRUE, outcome |-> <<>>]
    /\ form = NoForm

\* Any chunking, any consumer.
SmallParts == {LenPart(<<"x", "y">>), StreamPart(<<"x">>)}

Init ==
    InitWith({"any"},
             {Request(<<>>, parts, TRUE) :
                 parts \in SeqsUpTo(SmallParts, MaxParts) \ {<<>>}})

Spec == Init /\ [][Next]_vars

\* ------------------------------------------------------ the reference run
\* What the draining consumer sees when the whole body is in the buffer and
\* the upstream has ended before the first poll: poll the outer stream,
\* drain the part, drop it, poll again.  [parts, outcome]

RECURSIVE run_outer(_, _, _, _)
RECURSIVE run_field(_, _, _, _)
run_outer_res(m, res, parts) ==
    IF res.r.k = "field"
    THEN run_field([m EXCEPT !.state = res.state, !.item = TRUE], res.f, res.pl,
                   Append(parts, NewPart(res.hdrs)))
    ELSE [parts |-> parts, outcome |-> Outcome(res.r, TRUE)]

run_outer(m, f, pl, parts) ==
    run_outer_res(m, InnerMultipart_poll(m, f, pl, TRUE), parts)

run_field_res(m, p, parts) ==
    CASE p.r.k = "ok" ->
            run_field(m, p.f, p.pl,
                      [parts EXCEPT ![Len(parts)].data = @ \o p.r.v])
      [] p.r.k = "none" ->
            run_outer(m, p.f, p.pl, [parts EXCEPT ![Len(parts)].done = TRUE])
      [] OTHER -> [parts |-> parts, outcome |-> Outcome(p.r, TRUE)]

run_field(m, f, pl, parts) ==
    run_field_res(m, InnerField_poll(f, pl, m.boundary, TRUE), parts)

RunWhole(in) ==
    IF in.error # "" THEN [parts |-> <<>>, outcome |-> <<"err", in.error>>]
    ELSE run_outer([state |-> "FirstBoundary", item |-> FALSE,
                    boundary |-> in.boundary, formData |-> in.formData],
                   NoField, [buf |-> Render(in), eof |-> TRUE], <<>>)

\* What the draining consumer has seen, in the shape of the reference run.
Seen ==
    [parts |-> [i \in 1..Len(fields) |->
                    [hdrs |-> fields[i].hdrs, data |-> fields[i].data,
                     done |-> fields[i].fin = "eos"]],
     outcome |-> log.outcome]

\* What a body is made of: every part with its headers and its bytes, then
\* the end of the outer stream.
RECURSIVE DoneParts(_)
DoneParts(parts) ==
    IF parts = <<>> THEN <<>>
    ELSE <<[hdrs |-> Head(parts).hdrs, data |-> Head(parts).data,
            done |-> TRUE]>> \o DoneParts(Tail(parts))

Expected(in) == [parts |-> DoneParts(in.parts), outcome |-> <<"eos">>]

\* ------------------------------------------------------- well-formed bodies

\* Bodies of parts that declare their length; the last holds a delimiter.
LenData == {<<>>, <<"x", "y">>, CRLF \o DASHDASH \o Boundary}

\* Bodies of parts that do not: none holds CR LF "--" or CR "--".
StreamData == {<<>>, <<"x">>, <<"x", CR>>, <<DASH, DASH>>}

\* Preambles: none, a line of text, and a line that starts with the
\* boundary and "--".
Preambles == {<<>>, <<"p", CR, LF>>, Boundary \o DASHDASH \o CRLF}

LenParts == {LenPart(d) : d \in LenData}

StreamParts == {StreamPart(d) : d \in StreamData}

WellFormed(pres, partSet) ==
    {Request(pre, parts, crlf) :
        pre \in pres, parts \in SeqsUpTo(partSet, MaxParts) \ {<<>>},
        crlf \in BOOLEAN}

\* The body in one chunk.
InitWhole == InitWith({"whole"}, WellFormed(Preambles, LenParts \cup StreamParts))

SpecWhole == InitWhole /\ [][Next]_vars

\* Parts of known length, the body in one chunk or byte by byte.
InitBytesLen ==
    InitWith({"whole", "bytes"}, WellFormed({<<>>, <<"p", CR, LF>>}, LenParts))

SpecBytesLen == InitBytesLen /\ [][Next]_vars

\* Any parts, the body in one chunk or byte by byte.
InitBytes ==
    InitWith({"whole", "bytes"}, WellFormed({<<>>}, LenParts \cup StreamParts))

SpecBytes == InitBytes /\ [][Next]_vars

\* One part without a declared length and any bytes after its headers, fed
\* in any chunks: bytes that look like the start of a delimiter, a delimiter
\* of another boundary, and the delimiter itself inside the bytes.
RawData ==
    {<<"x">>,
     CRLF \o DASHDASH \o <<"b", "x">>,
     <<"x">> \o CRLF \o DASHDASH \o <<"x">>,
     <<CR>> \o DASHDASH \o Boundary,
     <<CR>> \o CRLF \o DASHDASH \o Boundary \o <<"x">>,
     <<"x">> \o CRLF \o DASHDASH \o Boundary \o <<"y">>}

InitStream ==
    InitWith({"any"}, {Request(<<>>, <<StreamPart(d)>>, TRUE) : d \in RawData})

SpecStream == InitStream /\ [][Next]_vars

\* Bytes after the closing boundary: a line of text, and one more part with
\* a closing boundary of its own.
Epilogues ==
    {<<"e", CR, LF>>,
     RenderParts(<<StreamPart(<<"x">>)>>, Boundary)
     \o DASHDASH \o Boundary \o DASHDASH \o CRLF}

\* One part, and bytes after the closing boundary.
InitEpilogue ==
    InitWith({"any"},
             {[Request(<<>>, <<p>>, TRUE) EXCEPT !.epi = e] :
                 p \in SmallParts, e \in Epilogues})

SpecEpilogue == InitEpilogue /\ [][Next]_vars

\* A part that declares 4 bytes and has 3 before its delimiter, alone or
\* before another part.
ShortPart == [hdrs |-> <<<<"L", <<"4">>>>>>, data |-> <<"d", "a", "t">>]

InitShort ==
    InitWith({"any"},
             {Request(<<>>, <<ShortPart>>, TRUE),
              Request(<<>>, <<ShortPart, StreamPart(<<"x">>)>>, TRUE)})

SpecShort == InitShort /\ [][Next]_vars

\* One or two parts, and an upstream that may fail.
InitFail ==
    InitWith({"any"},
             {Request(<<>>, parts, TRUE) :
                 parts \in {<<LenPart(<<"x", "y">>)>>,
                            <<LenPart(<<"x", "y">>), StreamPart(<<"x">>)>>,
                            <<StreamPart(<<"x">>), LenPart(<<"x", "y">>)>>}})

SpecFail == InitFail /\ [][NextFail]_vars

\* Content-Type: multipart/form-data; boundary=bc
Form == <<<<"T", <<"F", ";", "B", "=">> \o Boundary>>>>

\* The Content-Disposition headers of parts: none, form-data with a name,
\* form-data without a name, form-data with an empty name, another
\* disposition with a name, and one whose parameter has no "=".
Dispositions ==
    {<<>>,
     <<<<"D", <<"f", ";", "n", "=", "a">>>>>>,
     <<<<"D", <<"f">>>>>>,
     <<<<"D", <<"f", ";", "n", "=">>>>>>,
     <<<<"D", <<"a", ";", "n", "=", "a">>>>>>,
     <<<<"D", <<"f", ";", "n">>>>>>}

\* A part with that disposition, the Content-Type text/plain or
\* multipart/mixed and one byte, whose length it declares.
PartOf(d, t) == [hdrs |-> d \o <<<<"T", <<t>>>>, <<"L", <<"1">>>>>>, data |-> <<"x">>]

PartKinds == {PartOf(d, t) : d \in Dispositions, t \in {"t", "m"}}

GoodPart == PartOf(<<<<"D", <<"f", ";", "n", "=", "a">>>>>>, "t")

\* Requests of the type multipart/mixed or multipart/form-data with a part
\* of any kind, alone or after a part that has everything; the body comes
\* in one chunk or byte by byte.
InitParts ==
    InitWith({"whole", "bytes"},
             {RequestWith(h, <<>>, parts, TRUE) :
                 h \in {Mixed, Form},
                 parts \in {<<p>> : p \in PartKinds}
                           \cup {<<GoodPart, p>> : p \in PartKinds}})

SpecParts == InitParts /\ [][Next]_vars

\* The headers of requests, by what is wrong with them: no Content-Type, a
\* Content-Type that is no media type, a media type that is not multipart,
\* a multipart type without boundary, and multipart types with the boundary
\* (as a token, quoted, after another parameter, form-data).
NoContentTypeHeaders == {<<>>, <<<<"H", <<"m">>>>>>}

NoMediaTypes ==
    {<<>>, <<"?">>, <<"m", NonAscii>>, <<"m", ";", "B">>,
     <<"m", ";", "B", "=", QUOTE>> \o Boundary}

NotMultipartTypes == {<<"t">>, <<"t", ";", "B", "=">> \o Boundary}

NoBoundaryTypes == {<<"m">>, <<"F">>, <<"m", ";", "c", "=", "u">>}

BoundaryTypes ==
    {<<"m", ";", "B", "=">> \o Boundary,
     <<"m", ";", "B", "=", QUOTE>> \o Boundary \o <<QUOTE>>,
     <<"m", ";", "c", "=", "u", ";", "B", "=">> \o Boundary,
     <<"F", ";", "B", "=">> \o Boundary}

RequestHeaders ==
    NoContentTypeHeaders
    \cup {<<<<"T", v>>>> : v \in NoMediaTypes \cup NotMultipartTypes
                                \cup NoBoundaryTypes \cup BoundaryTypes}

\* Requests with any of these headers and a body of one part.
InitHeaders ==
    InitWith({"any"},
             {RequestWith(h, <<>>, <<StreamPart(<<"x">>)>>, TRUE) :
                 h \in RequestHeaders})

SpecInit == InitHeaders /\ [][NextInit]_vars

\* The bytes of a body before its first part's bytes, and through the
\* delimiter after them.
PartStart(in) ==
    Len(in.pre \o DASHDASH \o in.boundary \o CRLF
        \o RenderHeaders(in.parts[1].hdrs))

PartEnd(in) ==
    PartStart(in) + Len(in.parts[1].data \o CRLF \o DASHDASH \o in.boundary)

\* An upstream that ends in the middle of the first part: the sender is
\* dropped after the headers of the part and before the last byte of the
\* delimiter that follows its bytes.
InitCut ==
    /\ input \in {Request(<<>>, <<p>>, TRUE) :
                      p \in {LenPart(<<"x", "y">>), StreamPart(<<"x">>),
                             StreamPart(<<>>)}}
    /\ feed = "any"
    /\ \E n \in PartStart(input)..(PartEnd(input) - 1) :
          rest = Slice(Render(input), 0, n)
    /\ Created

SpecCut == InitCut /\ [][Next]_vars

\* A body given by its bytes, which need not be well-formed: the request is
\* its headers (multipart/mixed with the boundary), and the upstream ends
\* after the bytes.
InitBody(feeds, bodies) ==
    /\ input = Request(<<>>, <<>>, FALSE)
    /\ feed \in feeds
    /\ rest \in bodies
    /\ Created

\* The first boundary line and a part of one byte, which declares its
\* length; the closing boundary.
FirstLine == DASHDASH \o Boundary \o CRLF

OnePart == <<"L", "1">> \o CRLFCRLF \o <<"x">> \o CRLF

LastLine == DASHDASH \o Boundary \o DASHDASH \o CRLF

\* Bodies by what comes before the first boundary line: the closing
\* boundary at once (the empty body), nothing, a line of text, an empty
\* line, a line of another boundary, a line that starts with the boundary
\* and "--", a line of two dashes, and text that ends with the upstream.
FirstBodies ==
    {LastLine}
    \cup {pre \o FirstLine \o OnePart \o LastLine :
             pre \in {<<>>, <<"p", CR, LF>>, <<LF>>,
                      DASHDASH \o <<"b", "x">> \o CRLF,
                      Boundary \o DASHDASH \o CRLF,
                      DASHDASH \o <<LF>>}}
    \cup {<<"p", CR, LF>> \o DASHDASH \o <<"b">>}

InitFirst == InitBody({"any"}, FirstBodies)

SpecFirst == InitFirst /\ [][Next]_vars

\* Bodies by the line after the first part: the boundary, the closing
\* boundary with and without CR LF, and lines that are neither: text, a
\* line too short, another boundary, the boundary in another case, the
\* boundary with LF only or with other bytes after it, the closing boundary
\* with other bytes after it or cut before its end, no line at all, and
\* the boundary with nothing after it.
NextLines ==
    {FirstLine \o OnePart \o LastLine,
     FirstLine,
     LastLine,
     DASHDASH \o Boundary \o DASHDASH,
     <<"x">> \o CRLF,
     DASHDASH \o CRLF \o LastLine,
     DASHDASH \o <<"b", "x">> \o CRLF,
     DASHDASH \o <<"B", "C">> \o CRLF,
     DASHDASH \o Boundary \o <<LF>>,
     DASHDASH \o Boundary \o <<"x">> \o CRLF,
     DASHDASH \o Boundary \o DASHDASH \o <<"x">> \o CRLF,
     DASHDASH \o Boundary \o <<DASH>>,
     <<>>}

InitNext == InitBody({"any"}, {FirstLine \o OnePart \o l : l \in NextLines})

SpecNext == InitNext /\ [][Next]_vars

\* n header lines "H" without a value.
RECURSIVE HeaderLines(_)
HeaderLines(n) == IF n = 0 THEN <<>> ELSE <<"H">> \o CRLF \o HeaderLines(n - 1)

\* Bodies by the header block of the first part: a header and the empty
\* line, a header without the empty line before the end of the upstream, no
\* header at all, a line that is no header; and MAX_HEADERS header lines,
\* and one more.
HeadBodies ==
    {FirstLine \o OnePart \o LastLine,
     FirstLine \o <<"L", "1">> \o CRLF,
     FirstLine \o CRLF \o <<"x">> \o CRLF \o LastLine,
     FirstLine \o <<"?", "x">> \o CRLFCRLF \o <<"x">> \o CRLF \o LastLine}

LongHeadBodies ==
    {FirstLine \o HeaderLines(n) \o CRLF \o <<"x">> \o CRLF \o LastLine :
        n \in {MAX_HEADERS, MAX_HEADERS + 1}}

InitHead == InitBody({"any"}, HeadBodies) \/ InitBody({"whole"}, LongHeadBodies)

SpecHead == InitHead /\ [][Next]_vars

\* Bodies by what follows the bytes of the first part, which declares one
\* byte or no length: CR LF, other bytes and CR LF, LF alone, nothing, and
\* CR alone, before the end of the upstream; and a delimiter with CR alone.
LatchBodies ==
    {FirstLine \o <<"L", "1">> \o CRLFCRLF \o <<"x">> \o after :
        after \in {CRLF \o LastLine, <<"y", "z">> \o CRLF \o LastLine,
                   <<LF>> \o LastLine, <<>>, <<CR>>}}
    \cup {FirstLine \o <<"T", "t">> \o CRLFCRLF \o <<"x">> \o after :
        after \in {CRLF \o LastLine, <<CR>> \o LastLine}}

InitLatch == InitBody({"any"}, LatchBodies)

SpecLatch == InitLatch /\ [][Next]_vars

\* One part without a declared length, the whole body in one chunk: bytes
\* with a CR that starts no marker, with the start of a marker and other
\* bytes, and with the boundary after CR "--" and after CR LF "--".
MarkerData ==
    {<<"x">>, <<CR, "x">>, <<"x", CR, LF, "y">>, <<CR, DASH, "x">>,
     CRLF \o DASHDASH \o <<"b", "x">>,
     <<"x">> \o CRLF \o DASHDASH \o <<"x">>,
     <<"x", CR>> \o DASHDASH \o <<"x">>,
     <<"x", CR>> \o DASHDASH \o Boundary \o <<"y">>,
     <<"x">> \o CRLF \o DASHDASH \o Boundary \o <<"y">>}

InitMarker ==
    InitWith({"whole"},
             {Request(<<>>, <<StreamPart(d)>>, TRUE) : d \in MarkerData})

SpecMarker == InitMarker /\ [][Next]_vars

\* One part in any chunks: a part that declares its length, or a part
\* without a length and any bytes after its headers.
InitLoop ==
    InitWith({"any"},
             {Request(<<>>, <<p>>, TRUE) :
                 p \in {LenPart(<<"x", "y">>)}
                        \cup {StreamPart(d) : d \in RawData}})

SpecLoop == InitLoop /\ [][Next]_vars

\* ------------------------------------------------------- the typed form
\* MultipartForm::from_request with a form type T that limits the fields
\* named "a" to FieldLimit bytes and the fields named "b" not at all, under
\* a configuration of TotalLimit and MemoryLimit bytes.  The fields of the
\* request are [name, chunks]: the form field name and the lengths of the
\* chunks the field gives; every field is read as TempFile reads it.
FieldLimit == 3

TotalLimit == 5

MemoryLimit == 1

\* The request has at most MaxFields fields.
MaxFields == 3

FieldNames == {"a", "b"}

\* MultipartCollect::limit of the form type
T_limit(name) == IF name = "a" THEN FieldLimit ELSE NoLimit

FormFields ==
    {[name |-> n, chunks |-> c] :
        n \in FieldNames, c \in {<<1>>, <<2>>, <<1, 2>>}}

InitForm ==
    /\ input \in {RequestWith(Form, <<>>, <<>>, TRUE), Request(<<>>, <<>>, TRUE)}
    /\ feed = "any"
    /\ rest = <<>>
    /\ Parser
    /\ \E t \in SeqsUpTo(FormFields, MaxFields) :
          form = [result |-> "new", limits |-> Limits_new(0, 0),
                  field_limits |-> <<>>, name |-> "", chunks |-> <<>>,
                  todo |-> t, accepted |-> [n \in FieldNames |-> 0]]

\* What the extraction leaves alone: the parser is not modelled under it.
FormOnly ==
    UNCHANGED <<input, feed, rest, chan, closed, payload, clean, mp, fields,
                log>>

\* from_request up to its loop: the content type, the limits.
FormStart ==
    /\ form.result = "new"
    /\ form' = IF input.error # "" THEN [form EXCEPT !.result = input.error]
               ELSE IF ~input.formData
               THEN [form EXCEPT !.result = "IncompatibleContentType"]
               ELSE [form EXCEPT !.result = "running",
                                 !.limits = Limits_new(TotalLimit, MemoryLimit)]
    /\ Called("from_request", 0, TRUE, R("ok", <<>>))
    /\ FormOnly

\* The loop gets the next field and retrieves the limit for it.
FormField ==
    /\ form.result = "running" /\ form.name = "" /\ form.todo # <<>>
    /\ LET f == Head(form.todo)
           e == field_entry(form.field_limits, f.name, T_limit(f.name))
       IN  form' = [form EXCEPT
                      !.field_limits =
                          [n \in DOMAIN @ \cup {f.name} |->
                              IF n = f.name THEN e ELSE @[n]],
                      !.limits.field = e,
                      !.name = f.name,
                      !.chunks = f.chunks,
                      !.todo = Tail(@)]
    /\ Called("next_field", 0, TRUE, R("ok", <<>>))
    /\ FormOnly

\* TempFile::read_field gets a chunk of the field:
\* limits.try_consume_limits(chunk.len(), false)?
FormChunk ==
    /\ form.result = "running" /\ form.name # "" /\ form.chunks # <<>>
    /\ LET res == try_consume_limits(form.limits, Head(form.chunks), FALSE)
       IN  /\ form' = [form EXCEPT
                         !.limits = res.l,
                         !.chunks = Tail(@),
                         !.accepted[form.name] =
                             IF res.r.k = "ok" THEN @ + Head(form.chunks)
                             ELSE @,
                         !.result = IF res.r.k = "ok" THEN @ ELSE "Overflow"]
           /\ Called("read_chunk", Head(form.chunks), TRUE, res.r)
    /\ FormOnly

\* handle_field returns, at the end of the field or before it (a duplicate
\* that is ignored is not read): the stored limit is updated.
FormFieldDone ==
    /\ form.result = "running" /\ form.name # ""
    /\ form' = [form EXCEPT !.field_limits[form.name] = form.limits.field,
                            !.name = "", !.chunks = <<>>]
    /\ Called("field_done", 0, TRUE, R("ok", <<>>))
    /\ FormOnly

\* The outer stream has ended: T::from_state
FormDone ==
    /\ form.result = "running" /\ form.name = "" /\ form.todo = <<>>
    /\ form' = [form EXCEPT !.result = "ok"]
    /\ Called("from_state", 0, TRUE, R("ok", <<>>))
    /\ FormOnly

NextForm == FormStart \/ FormField \/ FormChunk \/ FormFieldDone \/ FormDone

SpecForm == InitForm /\ [][NextForm]_vars

\* Limits by itself: any remaining limits up to MaxLimit, and
\* try_consume_limits called with any number of bytes up to one more.
MaxLimit == 2

InitLimits ==
    /\ input = Request(<<>>, <<>>, TRUE)
    /\ feed = "any"
    /\ rest = <<>>
    /\ Parser
    /\ \E t \in 0..MaxLimit, m \in 0..MaxLimit,
          f \in {NoLimit} \cup (0..MaxLimit) :
          form = [result |-> "limits",
                  limits |-> [total |-> t, memory |-> m, field |-> f]]

Consume ==
    \E bytes \in 0..(MaxLimit + 1), in_memory \in BOOLEAN :
        /\ form' = [form EXCEPT
                      !.limits = try_consume_limits(@, bytes, in_memory).l]
        /\ Called("try_consume_limits", bytes, in_memory,
                  try_consume_limits(form.limits, bytes, in_memory).r)
        /\ FormOnly

SpecLimits == InitLimits /\ [][Consume]_vars

\* --------------------------------------------------- the buffer by itself
\* The operations of PayloadBuffer, and the two reads of InnerField that
\* work on it, called in any order on a buffer whose upstream sends a few
\* bytes in any chunks, at most MaxReady of them ready at a time.
MaxReady == 2

BufBodies ==
    {<<"a", LF, "b", "c">>, <<"b", CR, LF, "c", LF>>,
     <<"x">> \o CRLF \o DASHDASH \o Boundary}

\* The sizes and the delimiters the reads are called with.
Sizes == 0..3

Delims == <<<<LF>>, CRLF, <<"b", "c">>>>

InitBuffer == InitBody({"any"}, BufBodies)

Send ==
    /\ ~closed /\ rest # <<>> /\ Len(chan) < MaxReady
    /\ \E k \in 1..Len(rest) :
          /\ chan' = Append(chan, Slice(rest, 0, k))
          /\ rest' = SliceFrom(rest, k)
    /\ Called("feed", 0, TRUE, R("ok", <<>>))
    /\ UNCHANGED <<input, feed, closed, payload, clean, mp, fields, log, form>>

Drain ==
    LET ps == poll_stream(payload, chan, closed)
    IN  /\ payload' = ps.pl
        /\ chan' = ps.chan
        /\ Called("poll_stream", 0, TRUE, ps.r)
        /\ UNCHANGED <<input, feed, rest, closed, clean, mp, fields, log, form>>

\* What a read leaves alone.
Kept == UNCHANGED <<input, feed, rest, chan, closed, clean, mp, fields, log,
                    form>>

ReadMax ==
    \E n \in Sizes \ {0} :
        /\ payload' = read_max(payload, n).pl
        /\ Called("read_max", n, TRUE, read_max(payload, n).r)
        /\ Kept

ReadUntil ==
    \E d \in DOMAIN Delims :
        /\ payload' = read_until(payload, Delims[d]).pl
        /\ Called("read_until", d, TRUE, read_until(payload, Delims[d]).r)
        /\ Kept

Readline ==
    /\ payload' = readline(payload).pl
    /\ Called("readline", 0, TRUE, readline(payload).r)
    /\ Kept

ReadlineOrEof ==
    /\ payload' = readline_or_eof(payload).pl
    /\ Called("readline_or_eof", 0, TRUE, readline_or_eof(payload).r)
    /\ Kept

ReadLen ==
    \E n \in Sizes :
        /\ payload' = read_len(payload, n).pl
        /\ Called("read_len", n, TRUE, read_len(payload, n).r)
        /\ Kept

ReadStream ==
    /\ payload' = read_stream(payload, Boundary).pl
    /\ Called("read_stream", 0, TRUE, read_stream(payload, Boundary).r)
    /\ Kept

NextBuffer ==
    \/ Send \/ Close \/ Fail \/ Drain
    \/ ReadMax \/ ReadUntil \/ Readline \/ ReadlineOrEof
    \/ ReadLen \/ ReadStream

SpecBuffer == InitBuffer /\ [][NextBuffer]_vars

\* ------------------------------------------------------------------ claims

\* The consumer of the log has drained every part and has its outcome.
Finished == log.ok /\ log.outcome # <<>>

\* C1: a well-formed body (optional preamble, N parts, closing boundary)
\* that comes in one chunk gives the draining consumer exactly its N parts
\* in order, each with exactly its bytes, and then the end of the outer
\* stream.
C1_WholeBodyGivesItsParts == Finished => Seen = Expected(input)

\* C2: when every part declares its length, the body fed byte by byte gives
\* the draining consumer the same parts with the same bytes as the body in
\* one chunk, and the outer stream then ends.
C2_KnownLengthBytewise ==
    Finished => Seen = RunWhole(input) /\ log.outcome = <<"eos">>

C2_Witness ==
    /\ Finished /\ feed = "bytes" /\ Len(fields) = 2
    /\ fields[1].data = <<"x", "y">>
    /\ log.outcome = <<"eos">>

\* C3: for every body, parts without a declared length included, the body
\* fed byte by byte gives the draining consumer the same headers and bytes
\* of every part, and the same outcome, as the body in one chunk.
C3_ChunkInvariance == Finished => Seen = RunWhole(input)

\* C4: a part that declares the length N has given its consumer at most N
\* bytes after any polls, and exactly N when it ends.
C4_NoOvershoot ==
    \A i \in 1..Len(fields) :
        fields[i].declared # NoLength =>
            /\ Len(fields[i].data) <= fields[i].declared
            /\ fields[i].fin = "eos" => Len(fields[i].data) = fields[i].declared

C4_Witness ==
    /\ last.op = "poll_field" /\ last.r.k = "none"
    /\ fields[last.i].declared = 2
    /\ fields[last.i].data = <<"x", "y">>
    /\ payload.buf # <<>>

\* The delimiter of the model's boundary.
Delimiter == CRLF \o DASHDASH \o Boundary

\* C5: no chunk a part without a declared length gives holds the bytes
\* CR LF "--" boundary, whatever is in the buffer and however the upstream
\* is cut into chunks.
C5_BoundaryExactness ==
    (/\ last.op = "poll_field" /\ last.r.k = "ok"
     /\ fields[last.i].declared = NoLength)
        => find_bytes(last.r.v, Delimiter) < 0

C5_Witness ==
    /\ last.op = "poll_field" /\ last.r.k = "ok" /\ last.r.v # <<>>
    /\ fields[last.i].declared = NoLength
    /\ Len(payload.buf) > Len(Delimiter)
    /\ Slice(payload.buf, 0, Len(Delimiter)) = Delimiter

\* No part has come to its end, or failed, in the hands of its consumer:
\* every part handed out so far was dropped, or is held, before its end.
Undrained == \A i \in 1..Len(fields) : fields[i].fin = "open"

\* C6: when parts are dropped before their end, the polls of the outer
\* stream that follow discard the rest of the dropped part and give the next
\* part with its own headers, or the end of the outer stream when there is
\* no next part; they give no error and no part made of other bytes.
C6_DropInHalf ==
    (Undrained /\ last.op = "poll_mp" /\ last.r.k \in {"field", "none", "err"})
        => /\ last.r.k # "err"
           /\ Len(fields) <= Len(input.parts)
           /\ \A i \in 1..Len(fields) : fields[i].hdrs = input.parts[i].hdrs
           /\ last.r.k = "none" => Len(fields) = Len(input.parts)

\* C7: there is never more than one live part of a stream, and the outer
\* stream hands out a new part only when no part is live and the part of
\* its slot, if there is one, has come to its end.
C7_SingleActivePart ==
    /\ [](Cardinality(Live) <= 1)
    /\ [][Len(fields') > Len(fields)
            => /\ Live = {}
               /\ mp.item # 0 => ~fields'[mp.item].inner.payload]_vars

C7_Witness ==
    /\ Len(fields) = 2 /\ Live = {2}
    /\ last.op = "poll_mp" /\ last.r.k = "field"

\* The token of that level is not current: the count is not its level, or
\* the clean flag is down.
NonCurrent(level) == strong_count # level \/ ~clean

\* What a refused poll does: pending when the clean flag is up, NotConsumed
\* when it is down, and the upstream, the buffer and the parser as before.
Refused ==
    /\ last'.r = IF clean THEN R("pending", <<>>) ELSE Err("NotConsumed")
    /\ UNCHANGED <<chan, payload, mp, fields, clean>>

\* C8: a poll of the outer stream or of a part through a token that is not
\* current is refused (pending with the clean flag up, NotConsumed with it
\* down) and leaves the upstream, the buffer and the parser state alone; the
\* outer stream hands out no new part while an earlier one is live.
C8_NonCurrentRefused ==
    [][/\ (last'.op = "poll_mp" /\ NonCurrent(RootLevel)) => Refused
       /\ \A i \in Live :
            (last'.op = "poll_field" /\ last'.i = i
             /\ NonCurrent(fields[i].level)) => Refused
       /\ Len(fields') > Len(fields) => Live = {}]_vars

C8_Witness ==
    /\ last.op = "poll_mp" /\ last.r.k = "pending" /\ ~last.cur
    /\ Live # {} /\ chan # <<>>

\* The whole body has been sent and the upstream has ended.
AllSent == rest = <<>> /\ closed

\* The part of the slot has given its consumer its end.
SlotAtEnd == mp.item # 0 /\ fields[mp.item].fin = "eos"

\* C9 as stated: once the current part has given its end, the next poll of
\* the outer stream goes on to the next boundary and gives the next part or
\* the end of the outer stream, also when the part has not been dropped.
C9_AdvanceAfterEnd ==
    [][(last'.op = "poll_mp" /\ SlotAtEnd /\ AllSent)
            => last'.r.k \in {"field", "none"}]_vars

\* C9 amended: once the current part has given its end and has been dropped,
\* the next poll of the outer stream gives the next part or the end of the
\* outer stream; as long as the part is held, the poll of the outer stream
\* is pending and reads nothing.
C9_AdvanceAfterEndAndDrop ==
    [][/\ (last'.op = "poll_mp" /\ SlotAtEnd /\ AllSent /\ Live = {})
            => last'.r.k \in {"field", "none"}
       /\ (last'.op = "poll_mp" /\ SlotAtEnd /\ Live # {})
            => /\ last'.r.k = "pending"
               /\ UNCHANGED <<chan, payload, mp, fields>>]_vars

C9_Witness ==
    /\ last.op = "poll_mp" /\ last.r.k = "field"
    /\ Len(fields) = 2 /\ fields[1].fin = "eos" /\ ~fields[1].alive

\* C10: when a token is dropped out of order (the root token of the outer
\* stream while the token of a part is live), the clean flag is down from
\* then on and every later poll through the surviving token fails with
\* NotConsumed.
C10_OutOfOrderDrop ==
    (~mp.alive /\ Live # {})
        => /\ ~clean
           /\ last.op = "poll_field" => last.r = Err("NotConsumed")

\* The tokens that are not dropped: 0 is the root token of the outer stream,
\* i the token of the i-th part; and those of them that are current.
Tokens == (IF mp.alive THEN {0} ELSE {}) \cup Live

LevelOf(t) == IF t = 0 THEN RootLevel ELSE fields[t].level

CurrentTokens == {t \in Tokens : current(LevelOf(t))}

\* C11 as stated: whatever clones and drops have happened, exactly one of
\* the tokens of a stream is current.
C11_ExactlyOneCurrent == Tokens # {} => Cardinality(CurrentTokens) = 1

\* C11 amended: at most one token is current at any instant, and exactly one
\* as long as the root token is not dropped; a clone gives a token that is
\* current and makes the token that was current (the root) non-current.
C11_OneCurrentWhileRootLives ==
    /\ [](/\ Cardinality(CurrentTokens) <= 1
          /\ mp.alive => Cardinality(CurrentTokens) = 1)
    /\ [][Len(fields') > Len(fields)
            => /\ CurrentTokens = {0}
               /\ CurrentTokens' = {Len(fields')}]_vars

C11_Witness ==
    /\ Len(fields) = 2 /\ Tokens = {0, 2} /\ CurrentTokens = {2}
    /\ fields[2].level = 2 /\ last.op = "poll_mp"

\* The outcome of the initialization for the headers of the request.
InitOutcome(h) ==
    IF h \in NoContentTypeHeaders THEN "NoContentType"
    ELSE IF h[1][2] \in NoMediaTypes THEN "ParseContentType"
    ELSE IF h[1][2] \in NotMultipartTypes THEN "IncompatibleContentType"
    ELSE IF h[1][2] \in NoBoundaryTypes THEN "Boundary"
    ELSE ""

\* C12: the initialization gives NoContentType without a Content-Type
\* header, ParseContentType for a value that is no media type,
\* IncompatibleContentType for a type that is not multipart, Boundary for a
\* multipart type without boundary, and otherwise the boundary without its
\* quotes; the first poll of a stream made from failing headers gives that
\* error and has read nothing of the upstream.
C12_InitOutcome ==
    /\ input.error = InitOutcome(input.headers)
    /\ input.error = "" => input.boundary = Boundary
    /\ (Finished /\ InitOutcome(input.headers) # "")
            => /\ log.outcome = <<"err", InitOutcome(input.headers)>>
               /\ fields = <<>>
               /\ payload = [buf |-> <<>>, eof |-> FALSE]

C12_Witness ==
    /\ Finished /\ log.outcome = <<"err", "IncompatibleContentType">>
    /\ input.headers = <<<<"T", <<"t", ";", "B", "=">> \o Boundary>>>>
    /\ last.op = "poll_mp" /\ chan # <<>>

\* C13: once the error of the initialization has been given (by the first
\* poll of the outer stream or by content_type), no later poll of the outer
\* stream gives an error or a part, and none panics.
C13_InitErrorOnce ==
    [][(input.error # "" /\ mp.error = "" /\ last'.op = "poll_mp")
            => last'.r.k \notin {"err", "field", "panic"}]_vars

\* C14: the state Eof is final: once the outer stream is in it, the state
\* never changes, every poll of the outer stream gives the end of the stream
\* and no part is handed out, whatever the upstream brings afterwards.
C14_EofAbsorbing ==
    [][mp.state = "Eof"
          => /\ mp'.state = "Eof"
             /\ Len(fields') = Len(fields)
             /\ last'.op = "poll_mp" => last'.r.k = "none"]_vars

C14_Witness ==
    /\ mp.state = "Eof" /\ last.op = "poll_mp" /\ last.r.k = "none"
    /\ ~log.ok /\ Len(fields) = 1 /\ fields[1].fin = "eos"
    /\ payload.eof /\ find_bytes(payload.buf, DASHDASH \o Boundary \o CRLF) >= 0

\* The closing boundary without a newline, and the bytes the next poll
\* finds: those of the buffer and those that are ready in the channel.
ClosingLine == DASHDASH \o Boundary \o DASHDASH

Incoming == payload.buf \o (IF chan = <<>> THEN <<>> ELSE Head(chan))

\* C15: a body that ends with the closing boundary and then the end of the
\* upstream, without CR LF, gives the draining consumer the same parts as
\* the body with CR LF and then the end of the outer stream, without an
\* error; as long as the closing line has no newline and the upstream has
\* not ended, the poll of the outer stream is pending.
C15_NoTrailingCrlf ==
    /\ []((Finished /\ ~input.crlf)
            => /\ Seen = RunWhole([input EXCEPT !.crlf = TRUE])
               /\ log.outcome = <<"eos">>)
    /\ [][(/\ last'.op = "poll_mp" /\ current(RootLevel)
           /\ mp.state = "Boundary"
           /\ mp.item # 0 => ~fields[mp.item].inner.payload
           /\ Incoming = ClosingLine /\ ~closed)
              => last'.r.k = "pending" /\ mp'.state = mp.state]_vars

C15_Witness ==
    /\ Finished /\ ~input.crlf /\ feed = "bytes" /\ log.outcome = <<"eos">>
    /\ Len(fields) = 2 /\ fields[2].data = <<"x", "y">> /\ payload.buf = <<>>

\* s is the first bytes of t.
IsPrefix(s, t) == Len(s) <= Len(t) /\ s = Slice(t, 0, Len(s))

\* C16: a part that declares 4 bytes and has 3 before the delimiter gives
\* none of the bytes of the delimiter as its bytes and does not come to its
\* end: it fails, and with Incomplete.
C16_ShortPartIncomplete ==
    \A i \in 1..Len(fields) :
        fields[i].hdrs = ShortPart.hdrs
            => /\ IsPrefix(fields[i].data, ShortPart.data)
               /\ fields[i].fin # "eos"
               /\ (last.op = "poll_field" /\ last.i = i /\ last.r.k = "err")
                      => last.r = Err("Incomplete")

\* The part whose headers the outer stream reads next, when there is one,
\* and whether its Content-Type is a multipart type.
NextPart == input.parts[Len(fields) + 1]

NextIsNested ==
    /\ Len(fields) < Len(input.parts)
    /\ header_get(NextPart.hdrs, "T") = <<<<"m">>>>

\* The bytes of the body the parser has taken out of the buffer, and where
\* in the body the headers of the next part end.
Consumed == Len(Render(input)) - Len(rest) - Len(Incoming)

HeadersEnd ==
    Len(input.pre)
    + Len(RenderParts(SubSeq(input.parts, 1, Len(fields)), input.boundary))
    + Len(DASHDASH \o input.boundary \o CRLF \o RenderHeaders(NextPart.hdrs))

\* This step is the poll of the outer stream that reads the headers of the
\* next part.
ReadsNextHeaders ==
    /\ Len(fields) < Len(input.parts)
    /\ last'.op = "poll_mp"
    /\ Consumed < HeadersEnd /\ Consumed' = HeadersEnd

\* No part of a multipart type has been handed out, and the consumer that
\* drains every part ends with an error at such a part.
NoNestedPart ==
    /\ \A i \in 1..Len(fields) : header_get(fields[i].hdrs, "T") # <<<<"m">>>>
    /\ (Finished /\ NextIsNested) => log.outcome[1] = "err"

\* C17 as stated: the poll of the outer stream that has read the headers of
\* a part of a multipart type gives the error Nested; no part is handed out
\* for it and none is put into the slot.
C17_NestedRejected ==
    /\ []NoNestedPart
    /\ [][(NextIsNested /\ ReadsNextHeaders)
            => /\ last'.r = Err("Nested")
               /\ Len(fields') = Len(fields) /\ mp'.item = 0]_vars

\* The disposition of a part is form-data, and it has a name parameter.
IsFormData(part) ==
    /\ header_get(part.hdrs, "D") # <<>>
    /\ header_get(part.hdrs, "D")[1][1] = "f"
    /\ header_get(part.hdrs, "D")[1] # <<"f", ";", "n">>

HasName(part) == find_bytes(header_get(part.hdrs, "D")[1], <<"n", "=">>) >= 0

\* C17 amended: that poll gives the error Nested, unless the request is
\* form-data and the part has no form-data disposition or no name in it:
\* then it gives the error of that check, which comes first.  In every case
\* no part is handed out and none is put into the slot.
C17_NestedOrDispositionRejected ==
    /\ []NoNestedPart
    /\ [][(NextIsNested /\ ReadsNextHeaders)
            => /\ last'.r = Err(IF input.formData /\ ~IsFormData(NextPart)
                                THEN "ContentDispositionMissing"
                                ELSE IF input.formData /\ ~HasName(NextPart)
                                THEN "ContentDispositionNameMissing"
                                ELSE "Nested")
               /\ Len(fields') = Len(fields) /\ mp'.item = 0]_vars

C17_Witness ==
    /\ last.op = "poll_mp" /\ last.r = Err("Nested") /\ input.formData
    /\ Len(fields) = 1 /\ fields[1].fin = "open" /\ ~fields[1].alive
    /\ NextIsNested /\ Consumed = HeadersEnd /\ payload.buf # <<>>

\* C18: in a form-data request the poll that reads the headers of a part
\* without a form-data disposition gives ContentDispositionMissing, and of
\* a part whose disposition has no name ContentDispositionNameMissing, and
\* hands out no part; every part handed out has a name that is not empty.
\* In a request of another multipart type a part without disposition is
\* handed out.
C18_FormDataDisposition ==
    /\ [](input.formData => \A i \in 1..Len(fields) : fields[i].name # <<>>)
    /\ [][(ReadsNextHeaders /\ ~NextIsNested)
            => IF input.formData /\ ~IsFormData(NextPart)
               THEN /\ last'.r = Err("ContentDispositionMissing")
                    /\ Len(fields') = Len(fields)
               ELSE IF input.formData /\ ~HasName(NextPart)
               THEN /\ last'.r = Err("ContentDispositionNameMissing")
                    /\ Len(fields') = Len(fields)
               ELSE /\ last'.r.k = "field"
                    /\ fields'[Len(fields')].hdrs = NextPart.hdrs]_vars

\* The error that is ready in the channel, and the bytes that are ready
\* before it.
ErrorReady == chan # <<>> /\ chan[Len(chan)][1] = "!error"

ReadyBytes == IF Len(chan) = 2 THEN chan[1] ELSE <<>>

\* A poll finds the parser and the parts as they were, and the buffer with
\* the bytes that were ready before the error.
OnlyBuffered ==
    /\ mp' = mp /\ clean' = clean
    /\ Len(fields') = Len(fields)
    /\ \A i \in 1..Len(fields) :
          /\ fields'[i].inner = fields[i].inner
          /\ fields'[i].data = fields[i].data
    /\ payload' = [payload EXCEPT !.buf = payload.buf \o ReadyBytes]

\* C19: the poll of the outer stream or of the current part that finds an
\* error e of the upstream gives Payload(e), with e as it is; it gives no
\* part and no bytes and leaves the parser state and the bytes in the
\* buffer as they are.
C19_UpstreamErrorSurfaced ==
    [][(/\ ErrorReady
        /\ \/ last'.op = "poll_mp" /\ current(RootLevel)
           \/ /\ last'.op = "poll_field" /\ last'.i \in Live
              /\ current(fields[last'.i].level)
              /\ fields[last'.i].inner.payload)
          => /\ last'.r = R("err", <<"Payload", chan[Len(chan)][2]>>)
             /\ OnlyBuffered]_vars

C19_Witness ==
    /\ last.op = "poll_field" /\ last.r = R("err", <<"Payload", "e2">>)
    /\ payload.buf # <<>> /\ fields[last.i].data # <<>>
    /\ fields[last.i].declared = 2

\* A part has failed with Incomplete in the hands of its consumer.
PartIncomplete == \E i \in 1..Len(fields) : fields[i].error = "Incomplete"

\* C20: once a part has failed with Incomplete, no poll of the outer stream
\* hands out another part.
C20_InertAfterPartFailure ==
    [][PartIncomplete
          => /\ Len(fields') = Len(fields)
             /\ last'.op = "poll_mp" => last'.r.k # "field"]_vars

C20_Witness ==
    /\ PartIncomplete /\ Live = {} /\ Len(fields) < Len(input.parts)
    /\ last.op = "poll_mp" /\ last.cur /\ last.r = Err("Incomplete")

\* This step is a poll of the i-th part, which has given its end before.
PollAfterEnd(i) ==
    fields[i].fin = "eos" /\ last'.op = "poll_field" /\ last'.i = i

\* C21 as stated: once a part has given its end, every later poll of it
\* through the current token gives the end again, and never bytes.
C21_EndAgain ==
    [][\A i \in Live :
          (PollAfterEnd(i) /\ current(fields[i].level))
              => last'.r.k = "none"]_vars

\* C21 amended: once a part has given its end (the latch is set and the
\* payload released), no later poll of it gives bytes or reads anything: a
\* poll through the current token panics, and any other is refused.
C21_NoBytesAfterEnd ==
    /\ [](\A i \in 1..Len(fields) :
            fields[i].fin = "eos"
                => fields[i].inner.eof /\ ~fields[i].inner.payload)
    /\ [][\A i \in Live :
            PollAfterEnd(i)
                => /\ last'.r = IF current(fields[i].level)
                                THEN R("panic", <<>>)
                                ELSE NotCurrent
                   /\ UNCHANGED <<chan, payload, fields, mp>>]_vars

C21_Witness ==
    /\ last.op = "poll_field" /\ last.r.k = "panic"
    /\ fields[last.i].fin = "eos" /\ fields[last.i].data = <<"x", "y">>
    /\ chan # <<>>

C23_NoPendingAfterEof ==
    (last.op \in {"poll_mp", "poll_field"} /\ last.cur /\ payload.eof)
        => last.r.k # "pending"

\* The bytes the next poll finds (those of the buffer and those that are
\* ready), its first line, and whether it will see the end of the upstream.
HasLine == find_bytes(Incoming, <<LF>>) >= 0

Line == Slice(Incoming, 0, find_bytes(Incoming, <<LF>>) + 1)

EofReady == payload.eof \/ closed

\* This step is a poll of the outer stream that starts reading in that
\* state: through the current token, with no part left to release.
ReadsIn(state) ==
    /\ last'.op = "poll_mp" /\ mp.error = "" /\ current(RootLevel)
    /\ mp.state = state
    /\ mp.item # 0 => ~fields[mp.item].inner.payload

\* C25: when the first line of the body is the closing boundary
\* "--" boundary "--" (the empty body), the outer stream goes to the state
\* Eof and gives its end, and no part.
C25_EmptyBody ==
    [][(ReadsIn("FirstBoundary") /\ HasLine /\ Line = LastLine)
          => /\ mp'.state = "Eof" /\ last'.r.k = "none"
             /\ fields' = <<>>]_vars

\* What the scan for the first boundary makes of these bytes, line by line:
\* "found" at the line "--" boundary CR LF, "none" when the lines end
\* before it; a line that is the boundary with something else after it is
\* left to the claims about it ("other").
RECURSIVE FirstBoundaryIn(_)
FirstBoundaryAt(bytes, idx) ==
    IF idx < 0 THEN "none"
    ELSE IF Slice(bytes, 0, idx + 1) = FirstLine THEN "found"
    ELSE IF IsPrefix(DASHDASH \o Boundary, bytes) THEN "other"
    ELSE FirstBoundaryIn(SliceFrom(bytes, idx + 1))

FirstBoundaryIn(bytes) == FirstBoundaryAt(bytes, find_bytes(bytes, <<LF>>))

\* C26: in the state FirstBoundary the parser skips the lines that are not
\* "--" boundary (shorter lines too) and goes to the state Headers at the
\* first line that is; without such a line in the buffer the poll is
\* pending before the end of the upstream and fails with Incomplete after
\* it, and the state stays FirstBoundary.
C26_SkipPreamble ==
    [][ReadsIn("FirstBoundary")
          => /\ FirstBoundaryIn(Incoming) = "found"
                  => /\ Len(mp'.trail) > Len(mp.trail)
                     /\ mp'.trail[Len(mp.trail) + 1] = "Headers"
             /\ FirstBoundaryIn(Incoming) = "none"
                  => /\ mp'.state = "FirstBoundary"
                     /\ last'.r = IF payload'.eof THEN Err("Incomplete")
                                  ELSE R("pending", <<>>)]_vars

\* The line the read of a boundary takes: through the first LF, or all the
\* bytes there are when the upstream has ended without one.
BoundaryLine == IF HasLine THEN Line ELSE Incoming

\* C27: in the state Boundary the parser reads one line: "--" boundary
\* CR LF takes it to the state Headers, "--" boundary "--" with nothing or
\* CR LF after it to the state Eof, and any other line fails with the error
\* Boundary; without a whole line before the end of the upstream the poll
\* is pending.  One line is taken from the buffer, and nothing else.
C27_BoundaryLine ==
    [][ReadsIn("Boundary")
          => IF ~HasLine /\ ~payload'.eof
             THEN /\ last'.r.k = "pending" /\ mp'.state = "Boundary"
                  /\ payload'.buf = Incoming
             ELSE IF BoundaryLine = FirstLine
             THEN /\ Len(mp'.trail) > Len(mp.trail)
                  /\ mp'.trail[Len(mp.trail) + 1] = "Headers"
             ELSE IF BoundaryLine \in {ClosingLine, LastLine}
             THEN /\ mp'.state = "Eof" /\ last'.r.k = "none"
                  /\ payload'.buf = SliceFrom(Incoming, Len(BoundaryLine))
             ELSE /\ last'.r = Err("Boundary") /\ mp'.state = "Boundary"
                  /\ payload'.buf = SliceFrom(Incoming, Len(BoundaryLine))]_vars

C27_Witness ==
    /\ last.op = "poll_mp" /\ last.r = Err("Boundary")
    /\ mp.state = "Boundary" /\ Len(fields) = 1 /\ fields[1].fin = "eos"
    /\ payload.buf = LastLine /\ rest = <<>>

\* The bytes the read of the headers finds in this poll: those that are
\* there in the state Headers, and those after the first boundary line in
\* the state FirstBoundary.
ReadsHeaders ==
    \/ ReadsIn("Headers")
    \/ ReadsIn("FirstBoundary") /\ IsPrefix(FirstLine, Incoming)

HeaderBytes ==
    IF mp.state = "Headers" THEN Incoming
    ELSE SliceFrom(Incoming, Len(FirstLine))

BlockEnd == find_bytes(HeaderBytes, CRLFCRLF)

\* The lines of a header block, which ends with the empty line.
RECURSIVE LinesOf(_)
LinesOf(bytes) ==
    IF find_bytes(bytes, CRLF) <= 0 THEN <<>>
    ELSE <<Slice(bytes, 0, find_bytes(bytes, CRLF))>>
         \o LinesOf(SliceFrom(bytes, find_bytes(bytes, CRLF) + 2))

BlockLines == LinesOf(Slice(HeaderBytes, 0, BlockEnd + 4))

\* C28: in the state Headers the parser takes the bytes through the first
\* CR LF CR LF: without them the poll is pending before the end of the
\* upstream and fails with Incomplete after it; a block with a line that is
\* no header, or with more than 32 lines, fails with Decode; otherwise the
\* state is Boundary and the lines are the headers of the new part.
C28_HeaderBlock ==
    [][ReadsHeaders
          => IF BlockEnd < 0
             THEN /\ last'.r = IF payload'.eof THEN Err("Incomplete")
                               ELSE R("pending", <<>>)
                  /\ mp'.state = "Headers" /\ payload'.buf = HeaderBytes
                  /\ fields' = fields
             ELSE /\ payload'.buf = SliceFrom(HeaderBytes, BlockEnd + 4)
                  /\ IF \/ Len(BlockLines) > 32
                        \/ \E k \in 1..Len(BlockLines) :
                              BlockLines[k][1] \notin HeaderNames
                     THEN /\ last'.r = Err("Decode") /\ fields' = fields
                          /\ mp'.state = "Headers"
                     ELSE /\ last'.r.k = "field" /\ mp'.state = "Boundary"
                          /\ Len(fields') = Len(fields) + 1
                          /\ fields'[Len(fields')].hdrs
                                = [k \in 1..Len(BlockLines) |->
                                      <<BlockLines[k][1], Tail(BlockLines[k])>>]]_vars

C28_Witness ==
    /\ last.op = "poll_mp" /\ last.r.k = "field"
    /\ Len(fields[1].hdrs) = MAX_HEADERS
    /\ payload.buf = <<"x">> \o CRLF \o LastLine

\* The changes of the parser state that are allowed.
Transitions ==
    {<<"FirstBoundary", "Headers">>, <<"FirstBoundary", "Eof">>,
     <<"Boundary", "Headers">>, <<"Boundary", "Eof">>,
     <<"Headers", "Boundary">>}

\* The parser has started in FirstBoundary and every change of its state so
\* far is an allowed one.
TrailAllowed ==
    /\ mp.trail[1] = "FirstBoundary"
    /\ mp.trail[Len(mp.trail)] = mp.state
    /\ \A k \in 1..(Len(mp.trail) - 1) :
          <<mp.trail[k], mp.trail[k + 1]>> \in Transitions

\* This step is a poll of the outer stream that takes the change from
\* Headers to Boundary as its last.
TakesHeadersToBoundary ==
    /\ last'.op = "poll_mp"
    /\ Len(mp'.trail) > Len(mp.trail)
    /\ mp'.trail[Len(mp'.trail) - 1] = "Headers"
    /\ mp'.state = "Boundary"

\* This step is a poll of the outer stream that is pending or fails with an
\* error of a read of a boundary or of the headers.
ReadFails ==
    /\ last'.op = "poll_mp"
    /\ \/ last'.r.k = "pending"
       \/ last'.r \in {Err("Boundary"), Err("Incomplete"), Err("Decode")}

\* C24 as stated: the parser state starts as FirstBoundary and changes only
\* along the allowed changes; a part is handed out only by a poll that takes
\* the change from Headers to Boundary; a poll that is pending or fails in
\* a read of a boundary or of the headers leaves the state as it was before
\* the poll.
C24_StateMachine ==
    /\ []TrailAllowed
    /\ [][Len(fields') > Len(fields) => TakesHeadersToBoundary]_vars
    /\ [][ReadFails => mp'.state = mp.state]_vars

\* C24 amended: as above, but the poll that is pending or fails leaves the
\* state as it was before the read that is pending or fails: as before the
\* poll, or Headers when the poll has read the boundary line first and then
\* is pending or fails in the read of the headers.
C24_StateMachineByRead ==
    /\ []TrailAllowed
    /\ [][Len(fields') > Len(fields) => TakesHeadersToBoundary]_vars
    /\ [][ReadFails
            => \/ mp'.trail = mp.trail
               \/ /\ mp'.trail = Append(mp.trail, "Headers")
                  /\ mp.state \in {"FirstBoundary", "Boundary"}
                  /\ last'.r # Err("Boundary")]_vars

C24_Witness ==
    /\ last.op = "poll_mp" /\ last.r = Err("Incomplete")
    /\ mp.trail = <<"FirstBoundary", "Headers", "Boundary", "Headers">>
    /\ Len(fields) = 1 /\ payload.buf = <<>> /\ payload.eof

\* The latch of the i-th part is set when its next poll reads: it was set
\* before, or no byte of the declared length is left.
Latched(i) == fields[i].inner.eof \/ fields[i].inner.length = 0

\* C29: once its latch is set, a part takes one line, through the first
\* LF, from the buffer and gives its end, whatever the line is; without a
\* newline in the buffer the poll is pending before the end of the upstream
\* and fails with Incomplete after it.  The latch is never reset.
C29_TrailingLine ==
    /\ [][\A i \in 1..Len(fields) :
            fields[i].inner.eof => fields'[i].inner.eof]_vars
    /\ [][\A i \in Live :
            (/\ last'.op = "poll_field" /\ last'.i = i
             /\ current(fields[i].level) /\ fields[i].inner.payload
             /\ Latched(i))
                => /\ fields'[i].data = fields[i].data
                   /\ IF HasLine
                      THEN /\ last'.r.k = "none"
                           /\ payload'.buf = SliceFrom(Incoming, Len(Line))
                           /\ ~fields'[i].inner.payload
                      ELSE /\ last'.r = IF payload'.eof THEN Err("Incomplete")
                                        ELSE R("pending", <<>>)
                           /\ payload'.buf = Incoming
                           /\ fields'[i].inner.eof]_vars

C29_Witness ==
    /\ last.op = "poll_field" /\ last.r = Err("Incomplete")
    /\ fields[last.i].inner.eof /\ fields[last.i].data = <<"x">>
    /\ payload.buf = <<CR>>

\* The bytes are a proper prefix of the delimiter CR LF -- boundary, and
\* are not empty.
MarkerPrefix(bytes) ==
    bytes # <<>> /\ Len(bytes) < Len(Delimiter) /\ IsPrefix(bytes, Delimiter)

\* C30: a part without a declared length whose buffer holds only a proper
\* prefix of the delimiter, before the end of the upstream is seen, is
\* pending and takes no byte.
C30_PartialMarkerPends ==
    [][\A i \in Live :
        (/\ last'.op = "poll_field" /\ last'.i = i
         /\ current(fields[i].level) /\ fields[i].inner.payload
         /\ ~fields[i].inner.eof /\ fields[i].inner.length = NoLength
         /\ MarkerPrefix(Incoming) /\ ~payload'.eof)
            => last'.r.k = "pending" /\ payload'.buf = Incoming]_vars

\* The bytes of the i-th part of the body and the delimiter after them.
Buffered(i) == input.parts[i].data \o Delimiter

\* The marker with the CR alone: CR "--" boundary.
BareMarker == <<CR>> \o DASHDASH \o Boundary

\* The place of the first marker of either form in the bytes.
FirstMarker(bytes) ==
    IF find_bytes(bytes, BareMarker) >= 0
    THEN Min(find_bytes(bytes, BareMarker), find_bytes(bytes, Delimiter))
    ELSE find_bytes(bytes, Delimiter)

\* C31: a part without a declared length whose bytes and the delimiter
\* after them are in the buffer gives, up to its end, the bytes before the
\* first CR LF "--" boundary, in their order.
C31_StopsBeforeDelimiter ==
    \A i \in 1..Len(fields) :
        /\ IsPrefix(fields[i].data,
                    Slice(Buffered(i), 0, find_bytes(Buffered(i), Delimiter)))
        /\ fields[i].fin = "eos"
              => fields[i].data =
                    Slice(Buffered(i), 0, find_bytes(Buffered(i), Delimiter))

\* C31, with both forms of the marker: the part gives the bytes before the
\* first CR LF "--" boundary or CR "--" boundary.
C31_StopsBeforeMarker ==
    \A i \in 1..Len(fields) :
        /\ IsPrefix(fields[i].data,
                    Slice(Buffered(i), 0, FirstMarker(Buffered(i))))
        /\ fields[i].fin = "eos"
              => fields[i].data =
                    Slice(Buffered(i), 0, FirstMarker(Buffered(i)))

C31_Witness ==
    /\ Len(fields) = 1 /\ fields[1].fin = "eos"
    /\ fields[1].data = CRLF \o DASHDASH \o <<"b", "x">>

\* C32: read_max(N) on a buffer that is not empty returns and removes its
\* first min(N, length) bytes and leaves the rest in order; on an empty
\* buffer it fails with Incomplete once the end of the upstream is seen and
\* returns None before, and changes nothing.
C32_ReadMax ==
    [][last'.op = "read_max"
        => /\ payload'.eof = payload.eof
           /\ IF payload.buf # <<>>
              THEN /\ last'.r = R("some", Slice(payload.buf, 0,
                                     Min(last'.i, Len(payload.buf))))
                   /\ payload'.buf = SliceFrom(payload.buf,
                                     Min(last'.i, Len(payload.buf)))
              ELSE /\ payload' = payload
                   /\ last'.r = IF payload.eof THEN Err("Incomplete")
                                ELSE R("none", <<>>)]_vars

C32_Witness ==
    /\ last.op = "read_max" /\ last.r.k = "some" /\ last.i = 2
    /\ Len(last.r.v) = 2 /\ payload.buf # <<>>

\* The lengths of the prefixes of the bytes that end with the delimiter.
EndsWith(bytes, d) ==
    Len(bytes) >= Len(d) /\ SliceFrom(bytes, Len(bytes) - Len(d)) = d

PrefixesWith(bytes, d) ==
    {k \in 0..Len(bytes) : EndsWith(Slice(bytes, 0, k), d)}

\* A read until d: the shortest prefix that ends with d is returned and
\* removed; without d nothing changes, and the read is pending before the
\* end of the upstream and fails with Incomplete after it.
ReadsUntil(d) ==
    IF PrefixesWith(payload.buf, d) # {}
    THEN \E k \in PrefixesWith(payload.buf, d) :
            /\ \A j \in PrefixesWith(payload.buf, d) : k <= j
            /\ last'.r = R("some", Slice(payload.buf, 0, k))
            /\ payload' = [payload EXCEPT !.buf = SliceFrom(payload.buf, k)]
    ELSE /\ payload' = payload
         /\ last'.r = IF payload.eof THEN Err("Incomplete")
                      ELSE R("none", <<>>)

\* C33: read_until returns and removes the shortest prefix that ends with
\* the delimiter, or changes nothing and is pending, or fails with
\* Incomplete at the end of the upstream; readline is read_until LF;
\* readline_or_eof is readline, but at the end of the upstream and without
\* a newline it returns and removes the whole buffer.
C33_DelimiterReads ==
    /\ [][last'.op = "read_until" => ReadsUntil(Delims[last'.i])]_vars
    /\ [][last'.op = "readline" => ReadsUntil(<<LF>>)]_vars
    /\ [][last'.op = "readline_or_eof"
            => IF payload.eof /\ PrefixesWith(payload.buf, <<LF>>) = {}
               THEN /\ last'.r = R("some", payload.buf)
                    /\ payload' = [payload EXCEPT !.buf = <<>>]
               ELSE ReadsUntil(<<LF>>)]_vars

C33_Witness ==
    /\ last.op = "readline_or_eof" /\ last.r = R("some", <<"c">>)
    /\ payload = [buf |-> <<>>, eof |-> TRUE]

\* The bytes of the chunks that are ready in the channel before its first
\* error, in their order.
RECURSIVE Arrived(_)
Arrived(ch) ==
    IF ch = <<>> \/ Head(ch)[1] = "!error" THEN <<>>
    ELSE Head(ch) \o Arrived(Tail(ch))

\* The upstream has ended and holds no error.
Exhausted == closed /\ \A k \in 1..Len(chan) : chan[k][1] # "!error"

\* C34: poll_stream appends every chunk that is ready, in the order of
\* arrival, and returns; it sets eof exactly when the upstream reports its
\* end; eof, once set, stays set.
C34_Drain ==
    /\ [][last'.op = "poll_stream"
            => /\ payload'.buf = payload.buf \o Arrived(chan)
               /\ payload'.eof = (payload.eof \/ Exhausted)]_vars
    /\ [][payload.eof => payload'.eof]_vars

C34_Witness ==
    /\ last.op = "poll_stream" /\ payload.eof /\ rest = <<>>
    /\ payload.buf = <<"c", LF>>

\* C35: every step leaves the bytes it returned, followed by the bytes of
\* the buffer, equal to the bytes the buffer held followed by the chunks
\* taken from the upstream: bytes come in at the back, from the upstream
\* only, and go out at the front, and none is lost, doubled or reordered.
C35_Conservation ==
    [][(IF last'.r.k \in {"some", "ok"} THEN last'.r.v ELSE <<>>)
            \o payload'.buf
        = payload.buf
            \o (IF last'.op = "poll_stream" THEN Arrived(chan) ELSE <<>>)]_vars

C35_Witness ==
    /\ last.op = "read_stream" /\ last.r = R("ok", <<"x">>)
    /\ payload.buf = Delimiter /\ rest = <<>>

\* The consumer has polled the outer stream and is parked: the poll was
\* pending because the token of the stream is not current.
Parked == last.op = "poll_mp" /\ last.r.k = "pending" /\ ~last.cur

\* C36: the drop of the part whose token is current takes one off the
\* count, which makes the token of the outer stream current, and wakes the
\* waker registered when the token was cloned; and while the consumer is
\* parked at the outer stream a part is alive that holds its waker, so the
\* consumer is polled again when the part is dropped.
C36_DropWakes ==
    /\ [](Parked => \E i \in Live : fields[i].task = "registered")
    /\ [][\A i \in Live :
            (/\ last'.op = "drop_field" /\ last'.i = i
             /\ current(fields[i].level))
                => /\ strong_count' = strong_count - 1
                   /\ mp'.alive /\ strong_count' = RootLevel /\ clean'
                   /\ fields'[i].task = "woken"]_vars

C36_Witness ==
    /\ last.op = "drop_field" /\ last.cur /\ mp.alive
    /\ fields[last.i].task = "woken" /\ fields[last.i].fin = "open"
    /\ strong_count = RootLevel /\ clean

\* The payload as the next poll finds it, with the chunks that are ready.
Drained == poll_stream(payload, chan, closed).pl

\* Every round of the scan loop that finds a CR at or after pos goes on, if
\* it goes on, from a later place of the buffer.
ScanAdvances(pl) ==
    \A pos \in 0..Len(pl.buf) :
        find_bytes(SliceFrom(pl.buf, pos), <<CR>>) >= 0
            => /\ scan_cur(pl, pos) + 1 > pos
               /\ scan_cur(pl, pos) + 1 <= Len(pl.buf)

\* Every round of the release loop that gets a chunk from the field leaves
\* fewer bytes in the buffer; the other rounds are the last.
RECURSIVE ReleaseProgress(_, _, _)
ReleaseProgress(f, pl, boundary) ==
    LET p == InnerField_poll(f, pl, boundary, TRUE)
    IN  p.r.k = "ok"
            => /\ Len(p.pl.buf) < Len(pl.buf)
               /\ ReleaseProgress(p.f, p.pl, boundary)

\* C37: every poll of the outer stream ends: no poll is in the release
\* loop without its token, every round of the release loop that gets a
\* chunk takes bytes from the buffer, and every round of the scan loop of
\* read_stream goes on from a later place.
C37_PollTerminates ==
    /\ last.r.k # "hang"
    /\ ScanAdvances(Drained)
    /\ mp.item # 0
          => ReleaseProgress(fields[mp.item].inner, Drained, input.boundary)

C37_Witness ==
    /\ last.op = "poll_mp" /\ last.r.k = "none" /\ mp.state = "Eof"
    /\ Len(fields) = 1 /\ fields[1].fin = "open" /\ fields[1].data = <<>>
    /\ find_bytes(input.parts[1].data, <<CR>>) > 0

Fits(l, bytes, in_memory) ==
    /\ bytes <= l.total
    /\ in_memory => bytes <= l.memory
    /\ l.field # NoLimit => bytes <= l.field

\* C40: try_consume_limits(bytes, in_memory) succeeds exactly when bytes
\* fits the remaining total, the remaining memory if in_memory, and the
\* remaining limit of the field if there is one; then each of these is
\* bytes less than before and the others are as before; otherwise it
\* fails with Payload(Overflow); no limit is ever below zero or grows.
C40_ConsumeLimits ==
    /\ [](form.limits.total >= 0 /\ form.limits.memory >= 0
           /\ form.limits.field >= NoLimit)
    /\ [][last'.op = "try_consume_limits"
            => /\ form'.limits.total <= form.limits.total
               /\ form'.limits.memory <= form.limits.memory
               /\ form'.limits.field <= form.limits.field
               /\ (form.limits.field = NoLimit) = (form'.limits.field = NoLimit)
               /\ IF Fits(form.limits, last'.i, last'.cur)
                  THEN /\ last'.r = R("ok", <<>>)
                       /\ form'.limits.total = form.limits.total - last'.i
                       /\ form'.limits.memory =
                             IF last'.cur THEN form.limits.memory - last'.i
                             ELSE form.limits.memory
                       /\ form'.limits.field =
                             IF form.limits.field # NoLimit
                             THEN form.limits.field - last'.i
                             ELSE NoLimit
                  ELSE last'.r = Overflow]_vars

C40_Witness ==
    /\ last.op = "try_consume_limits" /\ last.r = Overflow /\ last.cur
    /\ form.limits = [total |-> 0, memory |-> 1, field |-> 2]

\* What is left of the limit of the fields of that name, given the bytes
\* accepted for the name so far.
LeftFor(name) ==
    IF T_limit(name) = NoLimit THEN NoLimit
    ELSE T_limit(name) - form.accepted[name]

\* C39: the fields of one name share the limit of the name: the first
\* starts from T::limit(name) and each later one from what the one before
\* left, so that the bytes accepted for the name are never more than
\* T::limit(name); a chunk that would exceed it fails with
\* Payload(Overflow).
C39_SharedFieldLimit ==
    /\ [](\A n \in FieldNames :
            T_limit(n) # NoLimit => form.accepted[n] <= T_limit(n))
    /\ [](form.name # "" => form.limits.field = LeftFor(form.name))
    /\ [][last'.op = "next_field"
            => form'.limits.field = LeftFor(form'.name)]_vars
    /\ [][(/\ last'.op = "read_chunk"
           /\ T_limit(form.name) # NoLimit
           /\ form.accepted[form.name] + last'.i > T_limit(form.name))
              => last'.r = Overflow /\ form'.result = "Overflow"]_vars

C39_Witness ==
    /\ form.result = "Overflow" /\ last.op = "read_chunk"
    /\ form.name = "a" /\ form.accepted["a"] = FieldLimit
    /\ "a" \in DOMAIN form.field_limits /\ form.field_limits["a"] = 0
    /\ form.limits.total >= 0

====
